---------------------------- MODULE Spec2Model ----------------------------
(***************************************************************************)
(* A model of the docs pipeline of the SOP generator backend:              *)
(*   backend/services/docs_service.py   (curl parsing, OpenAPI synthesis,  *)
(*                                       default Markdown rendering)       *)
(*   backend/services/storage_service.py (per-project persisted artifacts) *)
(*   backend/routers/docs.py             (ingest / generate endpoints)     *)
(*   backend/routers/sop.py              (upload_project)                  *)
(*                                                                         *)
(* Text is modelled character by character: a Python str is a sequence of  *)
(* one-character strings.  A Python dict is a sequence of <<key, value>>   *)
(* pairs with unique keys in insertion order.  An Optional[str] is a       *)
(* record [some, v].                                                       *)
(***************************************************************************)
EXTENDS Naturals, Integers, Sequences, FiniteSets, TLC

VARIABLES
    pc,          \* position of the running call
    shape,       \* how the input of the running call was written
    cmd,         \* parse_curl: the command string given to it
    tokens,      \* parse_curl: the token list of _shell_split
    parsed,      \* parse_curl: the returned ParsedRequest
    payload,     \* parse_curl_inputs: [curls_text, curls]
    curls,       \* parse_curl_inputs: the list _normalize_curls returned
    requests,    \* parse_curl_inputs: the local list requests
    leftovers,   \* parse_curl_inputs: the local list leftovers
    fallback,    \* parse_curl_inputs: the JSON fallback request was appended
    build,       \* build_openapi_from_requests: its arguments and locals
    doc,         \* build_openapi_from_requests: the returned document
    store,       \* the projects directory: per project id, its metadata and docs files
    response,    \* the response of the last endpoint call
    history,     \* per project id, the payload of its last ingest that returned ok
    calls,       \* number of endpoint calls made
    arg,         \* the argument of the function called on its own
    result       \* what that function returned

parseVars == <<cmd, tokens, parsed>>
inputVars == <<payload, curls, requests, leftovers, fallback>>
buildVars == <<build, doc>>
serviceVars == <<store, response, history, calls>>
callVars == <<arg, result>>
vars == <<pc, shape, parseVars, inputVars, buildVars, serviceVars, callVars>>

-----------------------------------------------------------------------------
(* Characters and Python str methods                                       *)

\* str.isspace() / the default character set of str.strip(), ASCII part
WS == {" ", "\t", "\n", "\r", "\f"}

LowerLetters == <<"a","b","c","d","e","f","g","h","i","j","k","l","m",
                  "n","o","p","q","r","s","t","u","v","w","x","y","z">>
UpperLetters == <<"A","B","C","D","E","F","G","H","I","J","K","L","M",
                  "N","O","P","Q","R","S","T","U","V","W","X","Y","Z">>
Digits == {"0","1","2","3","4","5","6","7","8","9"}
HexDigits == Digits \cup {"a","b","c","d","e","f","A","B","C","D","E","F"}

UpperChar(ch) ==
    IF \E i \in 1..26 : LowerLetters[i] = ch
    THEN UpperLetters[CHOOSE i \in 1..26 : LowerLetters[i] = ch]
    ELSE ch

LowerChar(ch) ==
    IF \E i \in 1..26 : UpperLetters[i] = ch
    THEN LowerLetters[CHOOSE i \in 1..26 : UpperLetters[i] = ch]
    ELSE ch

\* str.upper(), str.lower()
upper(s) == [i \in 1..Len(s) |-> UpperChar(s[i])]
lower(s) == [i \in 1..Len(s) |-> LowerChar(s[i])]

\* str.lstrip(chars), str.rstrip(chars), str.strip(chars): chars is a SET of
\* characters, every leading (trailing) character in it is removed
RECURSIVE lstrip_chars(_, _)
lstrip_chars(s, cs) ==
    IF s # <<>> /\ Head(s) \in cs THEN lstrip_chars(Tail(s), cs) ELSE s

RECURSIVE rstrip_chars(_, _)
rstrip_chars(s, cs) ==
    IF s # <<>> /\ s[Len(s)] \in cs
    THEN rstrip_chars(SubSeq(s, 1, Len(s) - 1), cs)
    ELSE s

strip_chars(s, cs) == rstrip_chars(lstrip_chars(s, cs), cs)

\* str.strip()
strip(s) == strip_chars(s, WS)

\* the argument "'\"" of .strip("'\"")
QuoteChars == {"'", "\""}

\* str.startswith(prefix)
startswith(s, p) == Len(s) >= Len(p) /\ SubSeq(s, 1, Len(p)) = p

\* str.find(ch) for a single character, 0 when absent (Python: -1)
find(s, ch) ==
    IF \E i \in 1..Len(s) : s[i] = ch
    THEN CHOOSE i \in 1..Len(s) : s[i] = ch /\ \A j \in 1..(i - 1) : s[j] # ch
    ELSE 0

\* Optional[str]
None == [some |-> FALSE, v |-> <<>>]
Some(s) == [some |-> TRUE, v |-> s]

\* "x or default" on an Optional[str]: None and "" are both falsy
OrElse(o, d) == IF o.some /\ o.v # <<>> THEN o.v ELSE d

\* dict[k] = v on an insertion-ordered dict
RECURSIVE DictSet(_, _, _)
DictSet(d, k, v) ==
    IF d = <<>> THEN << <<k, v>> >>
    ELSE IF Head(d)[1] = k THEN << <<k, v>> >> \o Tail(d)
    ELSE << Head(d) >> \o DictSet(Tail(d), k, v)

DictKeys(d) == {d[i][1] : i \in 1..Len(d)}
DictGet(d, k) == d[CHOOSE i \in 1..Len(d) : d[i][1] = k][2]

-----------------------------------------------------------------------------
(* docs_service.py: the curl command parser                                *)

NoQuote == ""

\* a splitter whose quote mode is closed by either quote character
RECURSIVE shell_scan_either_closes(_, _, _, _, _)
shell_scan_either_closes(s, i, parts, buf, quote) ==
    IF i > Len(s)
    THEN IF buf # <<>> THEN Append(parts, buf) ELSE parts
    ELSE LET ch == s[i] IN
         IF quote # NoQuote
         THEN IF ch \in QuoteChars
              THEN shell_scan_either_closes(s, i + 1, parts, buf, NoQuote)
              ELSE shell_scan_either_closes(s, i + 1, parts, Append(buf, ch), quote)
         ELSE IF ch \in QuoteChars
              THEN shell_scan_either_closes(s, i + 1, parts, buf, ch)
              ELSE IF ch \in WS
                   THEN IF buf # <<>>
                        THEN shell_scan_either_closes(s, i + 1, Append(parts, buf), <<>>, NoQuote)
                        ELSE shell_scan_either_closes(s, i + 1, parts, buf, NoQuote)
                   ELSE shell_scan_either_closes(s, i + 1, parts, Append(buf, ch), NoQuote)

\* the while loop of _shell_split from index i on
RECURSIVE shell_scan(_, _, _, _, _)
shell_scan(s, i, parts, buf, quote) ==
    IF i > Len(s)
    THEN IF buf # <<>> THEN Append(parts, buf) ELSE parts
    ELSE LET ch == s[i] IN
         IF quote # NoQuote
         THEN IF ch = quote
              THEN shell_scan(s, i + 1, parts, buf, NoQuote)
              ELSE shell_scan(s, i + 1, parts, Append(buf, ch), quote)
         ELSE IF ch \in QuoteChars
              THEN shell_scan(s, i + 1, parts, buf, ch)
              ELSE IF ch \in WS
                   THEN IF buf # <<>>
                        THEN shell_scan(s, i + 1, Append(parts, buf), <<>>, NoQuote)
                        ELSE shell_scan(s, i + 1, parts, buf, NoQuote)
                   ELSE shell_scan(s, i + 1, parts, Append(buf, ch), NoQuote)

_shell_split(s) == shell_scan(s, 1, <<>>, <<>>, NoQuote)

HeaderFlags == { <<"-", "H">>, <<"-", "-", "h", "e", "a", "d", "e", "r">> }
DataFlags == { <<"-", "d">>, <<"-", "-", "d", "a", "t", "a">>,
               <<"-", "-", "d", "a", "t", "a", "-", "r", "a", "w">>,
               <<"-", "-", "d", "a", "t", "a", "-", "b", "i", "n", "a", "r", "y">> }
MethodFlags == { <<"-", "X">>, <<"-", "-", "r", "e", "q", "u", "e", "s", "t">> }
UrlFlag == <<"-", "-", "u", "r", "l">>
HttpPrefix == <<"h", "t", "t", "p", ":", "/", "/">>
HttpsPrefix == <<"h", "t", "t", "p", "s", ":", "/", "/">>
Slash == <<"/">>
GET == <<"G", "E", "T">>
POST == <<"P", "O", "S", "T">>

\* headers_scan with the header value stored untrimmed (v instead of v.strip())
RECURSIVE headers_scan_untrimmed(_, _, _)
headers_scan_untrimmed(toks, i, headers) ==
    IF i > Len(toks) THEN headers
    ELSE IF toks[i] \in HeaderFlags /\ i + 1 <= Len(toks)
         THEN LET raw == strip_chars(strip(toks[i + 1]), QuoteChars)
                  c   == find(raw, ":")
              IN  IF c # 0
                  THEN headers_scan_untrimmed(toks, i + 1,
                           DictSet(headers, strip(SubSeq(raw, 1, c - 1)),
                                            SubSeq(raw, c + 1, Len(raw))))
                  ELSE headers_scan_untrimmed(toks, i + 1, headers)
         ELSE headers_scan_untrimmed(toks, i + 1, headers)

\* the loop of _parse_headers from token i on
RECURSIVE headers_scan(_, _, _)
headers_scan(toks, i, headers) ==
    IF i > Len(toks) THEN headers
    ELSE IF toks[i] \in HeaderFlags /\ i + 1 <= Len(toks)
         THEN LET raw == strip_chars(strip(toks[i + 1]), QuoteChars)
                  c   == find(raw, ":")
              IN  IF c # 0
                  THEN headers_scan(toks, i + 1,
                           DictSet(headers, strip(SubSeq(raw, 1, c - 1)),
                                            strip(SubSeq(raw, c + 1, Len(raw)))))
                  ELSE headers_scan(toks, i + 1, headers)
         ELSE headers_scan(toks, i + 1, headers)

_parse_headers(toks) == headers_scan(toks, 1, <<>>)

\* bytes.decode('unicode_escape') on the escapes the model's texts contain:
\* a backslash followed by one of these characters becomes the character on
\* the right; a backslash before any other character of the model's
\* alphabet is kept together with that character; a backslash that ends the
\* text makes the decode raise.
EscapeOf(ch) ==
    CASE ch = "n" -> "\n"
      [] ch = "t" -> "\t"
      [] ch = "r" -> "\r"
      [] ch = "f" -> "\f"
      [] ch = "\\" -> "\\"
      [] ch = "\"" -> "\""
      [] ch = "'" -> "'"
      [] OTHER -> ""

\* result [ok, v]; ok = FALSE models the UnicodeDecodeError
\* str.encode('utf-8') followed by a decode that reads one character per
\* byte: an ASCII character is itself, the non-ASCII character of the
\* model's alphabet (U+00E9, two UTF-8 bytes C3 A9) becomes two characters
Utf8AsLatin1(ch) ==
    IF ch = "U+00E9" THEN <<"U+00C3", "U+00A9">> ELSE << ch >>

RECURSIVE unicode_escape(_)
unicode_escape(s) ==
    IF s = <<>> THEN [ok |-> TRUE, v |-> <<>>]
    ELSE IF Head(s) # "\\"
         THEN LET r == unicode_escape(Tail(s))
              IN  [ok |-> r.ok, v |-> Utf8AsLatin1(Head(s)) \o r.v]
         ELSE IF Len(s) = 1 THEN [ok |-> FALSE, v |-> <<>>]
              ELSE LET r == unicode_escape(SubSeq(s, 3, Len(s)))
                       e == EscapeOf(s[2])
                   IN  [ok |-> r.ok,
                        v  |-> (IF e # "" THEN << e >> ELSE << "\\", s[2] >>) \o r.v]

\* what a caller would see in place of a value had an exception escaped
Traceback == <<"Traceback">>

\* data_value without the try/except of lines 51-55
data_value_uncaught(tok) ==
    LET raw == strip_chars(strip(tok), QuoteChars)
        dec == unicode_escape(raw)
    IN  IF dec.ok THEN dec.v ELSE Traceback

\* the body of the "if" of _parse_data for the value token tok
data_value(tok) ==
    LET raw == strip_chars(strip(tok), QuoteChars)
        dec == unicode_escape(raw)
    IN  IF dec.ok THEN dec.v ELSE raw

_parse_data(toks) ==
    IF \E i \in 1..Len(toks) : toks[i] \in DataFlags /\ i + 1 <= Len(toks)
    THEN LET i == CHOOSE k \in 1..Len(toks) :
                     /\ toks[k] \in DataFlags /\ k + 1 <= Len(toks)
                     /\ \A j \in 1..(k - 1) : ~(toks[j] \in DataFlags)
         IN  Some(data_value(toks[i + 1]))
    ELSE None

\* _parse_method returning the value as written (no .upper())
_parse_method_as_written(toks) ==
    IF \E i \in 1..Len(toks) : toks[i] \in MethodFlags /\ i + 1 <= Len(toks)
    THEN LET i == CHOOSE k \in 1..Len(toks) :
                     /\ toks[k] \in MethodFlags /\ k + 1 <= Len(toks)
                     /\ \A j \in 1..(k - 1) : ~(toks[j] \in MethodFlags)
         IN  Some(strip(toks[i + 1]))
    ELSE None

_parse_method(toks) ==
    IF \E i \in 1..Len(toks) : toks[i] \in MethodFlags /\ i + 1 <= Len(toks)
    THEN LET i == CHOOSE k \in 1..Len(toks) :
                     /\ toks[k] \in MethodFlags /\ k + 1 <= Len(toks)
                     /\ \A j \in 1..(k - 1) : ~(toks[j] \in MethodFlags)
         IN  Some(upper(strip(toks[i + 1])))
    ELSE None

LooksLikeUrl(tok) ==
    startswith(tok, HttpPrefix) \/ startswith(tok, HttpsPrefix) \/ startswith(tok, Slash)

_parse_url(toks) ==
    LET flagged == {i \in 1..Len(toks) : toks[i] = UrlFlag /\ i + 1 <= Len(toks)}
        looks   == {i \in 1..Len(toks) : LooksLikeUrl(toks[i])}
        last(S) == CHOOSE i \in S : \A j \in S : j <= i
        url == IF flagged # {} THEN Some(toks[last(flagged) + 1])
               ELSE IF looks # {} THEN Some(toks[last(looks)])
               ELSE None
    IN  IF url.some /\ url.v # <<>>
        THEN Some(strip_chars(strip(url.v), QuoteChars))
        ELSE None

\* the characters of the argument "curl " of str.lstrip
CurlChars == {"c", "u", "r", "l", " "}

\* line 153: the text handed to _shell_split
curl_args(curl_cmd) == lstrip_chars(strip(curl_cmd), CurlChars)

\* lines 154-159, from the token list on
request_of(toks) ==
    LET body_peek == _parse_data(toks)
    IN  [method  |-> OrElse(_parse_method(toks), IF body_peek.some THEN POST ELSE GET),
         url     |-> OrElse(_parse_url(toks), Slash),
         headers |-> _parse_headers(toks),
         body    |-> body_peek]

parse_curl(curl_cmd) == request_of(_shell_split(curl_args(curl_cmd)))

-----------------------------------------------------------------------------
(* json.loads, json.dumps and ast.literal_eval                             *)
(*                                                                         *)
(* A parsed value is a record [t, s, items]:                               *)
(*   t = "dict"  items = pairs, each [t |-> "pair", items |-> <<key, val>>]*)
(*   t = "list" / "tuple" / "set"   items = the elements                   *)
(*   t = "str"   s = the characters;   t = "int"  s = the decimal digits   *)
(*   t = "bool"  s = true / false;     t = "null"                          *)
(* Covered grammar: objects/dicts, arrays/lists, Python tuples and sets,   *)
(* quoted strings with the escapes below, decimal integers, and the        *)
(* literals true/false/null (Python: True/False/None).  Floats, Python     *)
(* string prefixes and \u escapes other than those of the three non-ASCII  *)
(* characters of the alphabet do not occur in the texts of this model.     *)

Val(t, s, items) == [t |-> t, s |-> s, items |-> items]
NullVal == Val("null", <<>>, <<>>)
Pair(k, v) == Val("pair", <<>>, <<k, v>>)

PFail == [ok |-> FALSE, pos |-> 0, val |-> NullVal]
POk(p, v) == [ok |-> TRUE, pos |-> p, val |-> v]

\* whitespace between tokens: JSON's four characters; Python's tokenizer
\* inside brackets also skips form feed
TokenWs(py) == IF py THEN {" ", "\t", "\n", "\r", "\f"} ELSE {" ", "\t", "\n", "\r"}

RECURSIVE skip_ws(_, _, _)
skip_ws(s, i, ws) == IF i <= Len(s) /\ s[i] \in ws THEN skip_ws(s, i + 1, ws) ELSE i

\* the character a JSON escape \c stands for ("" : not an escape, an error)
JsonEscape(ch) ==
    CASE ch = "n" -> "\n"
      [] ch = "t" -> "\t"
      [] ch = "r" -> "\r"
      [] ch = "f" -> "\f"
      [] ch = "\\" -> "\\"
      [] ch = "\"" -> "\""
      [] ch = "/" -> "/"
      [] OTHER -> ""

\* the character a \uXXXX escape stands for, for the non-ASCII characters of
\* the model's alphabet; "" for any other four characters
UnicodeOf(hex) ==
    CASE hex = <<"0", "0", "e", "9">> -> "U+00E9"
      [] hex = <<"0", "0", "c", "3">> -> "U+00C3"
      [] hex = <<"0", "0", "a", "9">> -> "U+00A9"
      [] OTHER -> ""

\* characters a strict JSON string may not contain unescaped
ControlChars == {"\t", "\n", "\r", "\f"}

\* the inside of a string literal opened by quote q, from index i on
RECURSIVE parse_string(_, _, _, _, _)
parse_string(s, i, q, py, acc) ==
    IF i > Len(s) THEN PFail
    ELSE IF s[i] = q THEN POk(i + 1, Val("str", acc, <<>>))
    ELSE IF s[i] = "\\"
         THEN IF i + 1 > Len(s) THEN PFail
              ELSE LET c == s[i + 1]
                       e == IF py THEN EscapeOf(c) ELSE JsonEscape(c)
                       u == IF c = "u" /\ i + 5 <= Len(s) THEN UnicodeOf(SubSeq(s, i + 2, i + 5))
                            ELSE ""
                   IN  IF u # "" THEN parse_string(s, i + 6, q, py, Append(acc, u))
                       ELSE IF e # "" THEN parse_string(s, i + 2, q, py, Append(acc, e))
                       ELSE IF py THEN parse_string(s, i + 2, q, py, acc \o <<"\\", c>>)
                       ELSE PFail
    ELSE IF s[i] \in (IF py THEN {"\n", "\r"} ELSE ControlChars) THEN PFail
    ELSE parse_string(s, i + 1, q, py, Append(acc, s[i]))

RECURSIVE digits_end(_, _)
digits_end(s, i) == IF i <= Len(s) /\ s[i] \in Digits THEN digits_end(s, i + 1) ELSE i

\* a decimal integer at index i: -?(0|[1-9][0-9]*)
parse_int(s, i) ==
    LET neg == s[i] = "-"
        j   == IF neg THEN i + 1 ELSE i
        k   == digits_end(s, j)
        ds  == SubSeq(s, j, k - 1)
    IN  IF k = j THEN PFail
        ELSE IF k - j > 1 /\ s[j] = "0" THEN PFail
        ELSE POk(k, Val("int", IF neg /\ ds # <<"0">> THEN <<"-">> \o ds ELSE ds, <<>>))

W_true == <<"t", "r", "u", "e">>
W_false == <<"f", "a", "l", "s", "e">>
W_null == <<"n", "u", "l", "l">>
W_True == <<"T", "r", "u", "e">>
W_False == <<"F", "a", "l", "s", "e">>
W_None == <<"N", "o", "n", "e">>

HasAt(s, i, w) == i + Len(w) - 1 <= Len(s) /\ SubSeq(s, i, i + Len(w) - 1) = w

\* true / false / null (Python: True / False / None) at index i
parse_literal(s, i, py) ==
    LET t == IF py THEN W_True ELSE W_true
        f == IF py THEN W_False ELSE W_false
        n == IF py THEN W_None ELSE W_null
    IN  IF HasAt(s, i, t) THEN POk(i + Len(t), Val("bool", W_true, <<>>))
        ELSE IF HasAt(s, i, f) THEN POk(i + Len(f), Val("bool", W_false, <<>>))
        ELSE IF HasAt(s, i, n) THEN POk(i + Len(n), NullVal)
        ELSE PFail

\* hashable Python values: everything but list, dict and set (and tuples
\* holding one)
RECURSIVE Hashable(_)
Hashable(v) ==
    /\ ~(v.t \in {"list", "dict", "set"})
    /\ v.t = "tuple" => \A i \in 1..Len(v.items) : Hashable(v.items[i])

\* Python compares True with 1 and False with 0 as equal, also inside tuples
RECURSIVE KeyForm(_)
KeyForm(v) ==
    IF v.t = "bool" THEN Val("int", IF v.s = W_true THEN <<"1">> ELSE <<"0">>, <<>>)
    ELSE IF v.t = "tuple" THEN Val("tuple", <<>>, [i \in 1..Len(v.items) |-> KeyForm(v.items[i])])
    ELSE v

\* d[k] = v on the pairs of a dict value: an equal key keeps its first form
RECURSIVE PairsSet(_, _, _)
PairsSet(ps, k, v) ==
    IF ps = <<>> THEN << Pair(k, v) >>
    ELSE IF KeyForm(Head(ps).items[1]) = KeyForm(k)
         THEN << Pair(Head(ps).items[1], v) >> \o Tail(ps)
         ELSE << Head(ps) >> \o PairsSet(Tail(ps), k, v)

RECURSIVE PairsOf(_)
PairsOf(items) ==
    IF items = <<>> THEN <<>>
    ELSE LET l == items[Len(items)]
         IN  PairsSet(PairsOf(SubSeq(items, 1, Len(items) - 1)), l.items[1], l.items[2])

RECURSIVE Dedup(_)
Dedup(items) ==
    IF items = <<>> THEN <<>>
    ELSE LET init == Dedup(SubSeq(items, 1, Len(items) - 1))
             l    == items[Len(items)]
         IN  IF \E i \in 1..Len(init) : KeyForm(init[i]) = KeyForm(l) THEN init
             ELSE Append(init, l)

\* the value of a closed display of the given kind, or the error Python
\* raises for an unhashable key or element
close_display(p, kind, acc, py) ==
    CASE kind \in {"dict", "brace"} ->
             IF \A i \in 1..Len(acc) :
                    IF py THEN Hashable(acc[i].items[1]) ELSE acc[i].items[1].t = "str"
             THEN POk(p, Val("dict", <<>>, PairsOf(acc)))
             ELSE PFail
      [] kind = "set" ->
             IF \A i \in 1..Len(acc) : Hashable(acc[i])
             THEN POk(p, Val("set", <<>>, Dedup(acc)))
             ELSE PFail
      [] OTHER -> POk(p, Val(kind, <<>>, acc))

RECURSIVE parse_value(_, _, _)
RECURSIVE parse_items(_, _, _, _, _, _)
RECURSIVE after_item(_, _, _, _, _, _)

\* after an element of a display: a comma and more elements, or the close
after_item(s, i, close, py, kind, acc) ==
    LET j == skip_ws(s, i, TokenWs(py))
    IN  IF j > Len(s) THEN PFail
        ELSE IF s[j] = close THEN close_display(j + 1, kind, acc, py)
        ELSE IF s[j] = "," THEN parse_items(s, j + 1, close, py, kind, acc)
        ELSE PFail

\* the elements of a display from index i on: kind "dict" reads key: value
\* pairs, "brace" is a Python { whose first element decides dict or set,
\* the other kinds read plain values
parse_items(s, i, close, py, kind, acc) ==
    LET j == skip_ws(s, i, TokenWs(py))
    IN  IF j > Len(s) THEN PFail
        ELSE IF s[j] = close
             THEN IF acc = <<>> \/ py THEN close_display(j + 1, kind, acc, py) ELSE PFail
        ELSE LET a == parse_value(s, j, py)
                 k == skip_ws(s, a.pos, TokenWs(py))
             IN  IF ~a.ok THEN PFail
                 ELSE IF kind = "dict" \/ (kind = "brace" /\ k <= Len(s) /\ s[k] = ":")
                      THEN IF k > Len(s) \/ s[k] # ":" THEN PFail
                           ELSE LET b == parse_value(s, skip_ws(s, k + 1, TokenWs(py)), py)
                                IN  IF ~b.ok THEN PFail
                                    ELSE after_item(s, b.pos, close, py, "dict",
                                                    Append(acc, Pair(a.val, b.val)))
                      ELSE after_item(s, a.pos, close, py,
                                      IF kind = "brace" THEN "set" ELSE kind,
                                      Append(acc, a.val))

\* a Python ( ... ): the empty tuple, a parenthesized value, or a tuple
parse_paren(s, i) ==
    LET j == skip_ws(s, i, TokenWs(TRUE))
    IN  IF j > Len(s) THEN PFail
        ELSE IF s[j] = ")" THEN POk(j + 1, Val("tuple", <<>>, <<>>))
        ELSE LET a == parse_value(s, j, TRUE)
                 k == skip_ws(s, a.pos, TokenWs(TRUE))
             IN  IF ~a.ok \/ k > Len(s) THEN PFail
                 ELSE IF s[k] = ")" THEN POk(k + 1, a.val)
                 ELSE IF s[k] = ","
                      THEN parse_items(s, k + 1, ")", TRUE, "tuple", << a.val >>)
                      ELSE PFail

parse_value(s, i, py) ==
    IF i > Len(s) THEN PFail
    ELSE LET ch == s[i]
         IN  IF ch = "{" THEN parse_items(s, i + 1, "}", py, IF py THEN "brace" ELSE "dict", <<>>)
             ELSE IF ch = "[" THEN parse_items(s, i + 1, "]", py, "list", <<>>)
             ELSE IF ch = "(" /\ py THEN parse_paren(s, i + 1)
             ELSE IF ch = "\"" \/ (py /\ ch = "'") THEN parse_string(s, i + 1, ch, py, <<>>)
             ELSE IF ch = "-" \/ ch \in Digits THEN parse_int(s, i)
             ELSE parse_literal(s, i, py)

\* a whole text as one value: [ok, val]; ok = FALSE models the exception
loads(s, py) ==
    LET r == parse_value(s, skip_ws(s, 1, TokenWs(py)), py)
    IN  IF r.ok /\ skip_ws(s, r.pos, TokenWs(py)) > Len(s)
        THEN [ok |-> TRUE, val |-> r.val]
        ELSE [ok |-> FALSE, val |-> NullVal]

json_loads(s) == loads(s, FALSE)

literal_eval(s) == loads(strip_chars(s, {" ", "\t"}), TRUE)

\* the text json.dumps writes for one character of a string (ensure_ascii)
JsonChar(ch) ==
    CASE ch = "\"" -> <<"\\", "\"">>
      [] ch = "\\" -> <<"\\", "\\">>
      [] ch = "\n" -> <<"\\", "n">>
      [] ch = "\r" -> <<"\\", "r">>
      [] ch = "\t" -> <<"\\", "t">>
      [] ch = "\f" -> <<"\\", "f">>
      [] ch = "U+00E9" -> <<"\\", "u", "0", "0", "e", "9">>
      [] ch = "U+00C3" -> <<"\\", "u", "0", "0", "c", "3">>
      [] ch = "U+00A9" -> <<"\\", "u", "0", "0", "a", "9">>
      [] OTHER -> << ch >>

RECURSIVE json_string(_)
json_string(s) == IF s = <<>> THEN <<>> ELSE JsonChar(Head(s)) \o json_string(Tail(s))

Quoted(s) == <<"\"">> \o s \o <<"\"">>

\* values json.dumps can write: no set anywhere, dict keys str, int, bool
\* or None
RECURSIVE Serializable(_)
Serializable(v) ==
    CASE v.t = "set" -> FALSE
      [] v.t \in {"list", "tuple"} -> \A i \in 1..Len(v.items) : Serializable(v.items[i])
      [] v.t = "dict" -> \A i \in 1..Len(v.items) :
                             /\ v.items[i].items[1].t \in {"str", "int", "bool", "null"}
                             /\ Serializable(v.items[i].items[2])
      [] OTHER -> TRUE

\* json.dumps(v) with the default separators ", " and ": ", for a
\* serializable v
RECURSIVE json_dumps(_)
RECURSIVE dumps_items(_, _)
dumps_items(items, isDict) ==
    IF items = <<>> THEN <<>>
    ELSE LET h == Head(items)
             one == IF isDict
                    THEN (IF h.items[1].t = "str" THEN json_dumps(h.items[1])
                          ELSE IF h.items[1].t = "null" THEN Quoted(W_null)
                          ELSE Quoted(h.items[1].s))
                         \o <<":", " ">> \o json_dumps(h.items[2])
                    ELSE json_dumps(h)
         IN  IF Len(items) = 1 THEN one
             ELSE one \o <<",", " ">> \o dumps_items(Tail(items), isDict)

json_dumps(v) ==
    CASE v.t = "str" -> Quoted(json_string(v.s))
      [] v.t = "int" -> v.s
      [] v.t = "bool" -> v.s
      [] v.t = "null" -> W_null
      [] v.t = "dict" -> <<"{">> \o dumps_items(v.items, TRUE) \o <<"}">>
      [] OTHER -> <<"[">> \o dumps_items(v.items, FALSE) \o <<"]">>

-----------------------------------------------------------------------------
(* docs_service.py: the curl batch normalizer                              *)

RECURSIVE ws_run_end(_, _)
ws_run_end(s, i) == IF i <= Len(s) /\ s[i] \in WS THEN ws_run_end(s, i + 1) ELSE i

RECURSIVE Count(_, _)
Count(s, ch) ==
    IF s = <<>> THEN 0 ELSE (IF Head(s) = ch THEN 1 ELSE 0) + Count(Tail(s), ch)

\* [ch.strip() for ch in _CURL_SPLIT_RE.split(s)] for a stripped text s: the
\* pattern \n\s*\n+ matches inside every whitespace run that holds two or
\* more newlines, from its first newline to its last; the whitespace of the
\* run left on either side is removed by ch.strip()
RECURSIVE split_blank(_, _, _, _)
split_blank(s, i, cur, chunks) ==
    IF i > Len(s) THEN Append(chunks, strip(cur))
    ELSE IF s[i] \in WS
         THEN LET e == ws_run_end(s, i)
                  run == SubSeq(s, i, e - 1)
              IN  IF Count(run, "\n") >= 2
                  THEN split_blank(s, e, <<>>, Append(chunks, strip(cur)))
                  ELSE split_blank(s, e, cur \o run, chunks)
         ELSE split_blank(s, i + 1, Append(cur, s[i]), chunks)

\* a de-dup loop that keeps the last occurrence of an item, not the first
RECURSIVE unique_keeping_last(_, _)
unique_keeping_last(items, seen) ==
    IF items = <<>> THEN <<>>
    ELSE IF \E i \in 2..Len(items) : items[i] = Head(items)
         THEN unique_keeping_last(Tail(items), seen)
         ELSE << Head(items) >> \o unique_keeping_last(Tail(items), seen)

\* the de-dup loop of _normalize_curls (lines 26-32)
RECURSIVE unique_in_order(_, _)
unique_in_order(items, seen) ==
    IF items = <<>> THEN <<>>
    ELSE IF Head(items) \in seen THEN unique_in_order(Tail(items), seen)
    ELSE << Head(items) >> \o unique_in_order(Tail(items), seen \cup {Head(items)})

_normalize_curls(curls_text, curls_list) ==
    LET listed == SelectSeq(curls_list, LAMBDA c : strip(c) # <<>>)
        chunks == IF strip(curls_text) # <<>>
                  THEN split_blank(strip(curls_text), 1, <<>>, <<>>)
                  ELSE <<>>
    IN  unique_in_order(listed \o chunks, {})

CurlPrefix == <<"c", "u", "r", "l", " ">>

RECURSIVE JoinWith(_, _)
JoinWith(ss, sep) ==
    IF ss = <<>> THEN <<>>
    ELSE IF Len(ss) = 1 THEN ss[1]
    ELSE ss[1] \o sep \o JoinWith(Tail(ss), sep)

\* the loop of parse_curl_inputs (lines 166-170)
curl_requests(cs) ==
    LET sel == SelectSeq(cs, LAMBDA c : startswith(c, CurlPrefix))
    IN  [i \in 1..Len(sel) |-> parse_curl(sel[i])]

curl_leftovers(cs) == SelectSeq(cs, LAMBDA c : ~startswith(c, CurlPrefix))

ContentTypeJson ==
    << << <<"C", "o", "n", "t", "e", "n", "t", "-", "T", "y", "p", "e">>,
          <<"a", "p", "p", "l", "i", "c", "a", "t", "i", "o", "n", "/", "j", "s", "o", "n">> >> >>

\* fallback_requests without the "not requests" test of line 172
fallback_requests_unguarded(reqs, left) ==
    IF left # <<>>
    THEN LET combined == strip(JoinWith(left, <<"\n">>))
             parsed_json == json_loads(combined)
         IN  IF parsed_json.ok
             THEN << [method  |-> POST,
                      url     |-> Slash,
                      headers |-> ContentTypeJson,
                      body    |-> Some(json_dumps(parsed_json.val))] >>
             ELSE <<>>
    ELSE <<>>

\* the JSON fallback of parse_curl_inputs (lines 172-186): the requests to
\* append to reqs
fallback_requests(reqs, left) ==
    IF reqs = <<>> /\ left # <<>>
    THEN LET combined == strip(JoinWith(left, <<"\n">>))
             parsed_json == json_loads(combined)
         IN  IF parsed_json.ok
             THEN << [method  |-> POST,
                      url     |-> Slash,
                      headers |-> ContentTypeJson,
                      body    |-> Some(json_dumps(parsed_json.val))] >>
             ELSE <<>>
    ELSE <<>>

\* the requests list parse_curl_inputs returns
parse_curl_inputs(p) ==
    LET cs == _normalize_curls(p.curls_text, p.curls)
        reqs == curl_requests(cs)
    IN  reqs \o fallback_requests(reqs, curl_leftovers(cs))

-----------------------------------------------------------------------------
(* docs_service.py: _coerce_json                                           *)

\* str.split(ch) for a single character
RECURSIVE split(_, _)
split(s, ch) ==
    LET c == find(s, ch)
    IN  IF c = 0 THEN << s >>
        ELSE << SubSeq(s, 1, c - 1) >> \o split(SubSeq(s, c + 1, Len(s)), ch)

\* str.replace(old, new): every non-overlapping occurrence, left to right
RECURSIVE replace(_, _, _)
replace(s, old, new) ==
    IF Len(s) < Len(old) \/ old = <<>> THEN s
    ELSE IF startswith(s, old)
         THEN new \o replace(SubSeq(s, Len(old) + 1, Len(s)), old, new)
         ELSE << Head(s) >> \o replace(Tail(s), old, new)

\* re.sub(r'\\([{}\[\]"])', r"\1", s): a backslash before a brace, bracket
\* or double quote is dropped
RECURSIVE drop_stray_backslashes(_)
drop_stray_backslashes(s) ==
    IF s = <<>> THEN <<>>
    ELSE IF Head(s) = "\\" /\ Len(s) >= 2 /\ s[2] \in {"{", "}", "[", "]", "\""}
         THEN << s[2] >> \o drop_stray_backslashes(SubSeq(s, 3, Len(s)))
         ELSE << Head(s) >> \o drop_stray_backslashes(Tail(s))

\* str.rfind(ch), 0 when absent
rfind(s, ch) ==
    IF \E i \in 1..Len(s) : s[i] = ch
    THEN CHOOSE i \in 1..Len(s) : s[i] = ch /\ \A j \in (i + 1)..Len(s) : s[j] # ch
    ELSE 0

\* the list candidates of _coerce_json (lines 75-86)
coerce_candidates(txt) ==
    (IF find(txt, "{") # 0 /\ find(txt, "}") # 0 /\ rfind(txt, "}") + 1 > find(txt, "{")
     THEN << SubSeq(txt, find(txt, "{"), rfind(txt, "}")) >>
     ELSE <<>>)
    \o << replace(txt, <<"\\", "\"">>, <<"\"">>),
          replace(txt, <<"\\", "/">>, <<"/">>),
          replace(txt, <<"\\", "n">>, <<>>),
          drop_stray_backslashes(txt) >>

\* _coerce_json returning the stripped text (txt, not value) at line 97
_coerce_json_stripped(value) ==
    LET attempts(txt) ==
            LET texts == << txt >> \o coerce_candidates(txt)
            IN  [i \in 1..Len(texts) |-> json_loads(texts[i])] \o << literal_eval(txt) >>
        first_parsed(rs) ==
            IF \E i \in 1..Len(rs) : rs[i].ok
            THEN rs[CHOOSE i \in 1..Len(rs) : rs[i].ok /\ \A j \in 1..(i - 1) : ~rs[j].ok].val
            ELSE Val("str", strip(value), <<>>)
    IN  first_parsed(attempts(strip(value)))

\* the value _coerce_json returns for the string value
_coerce_json(value) ==
    LET \* the texts tried with json.loads, in order, then ast.literal_eval
        attempts(txt) ==
            LET texts == << txt >> \o coerce_candidates(txt)
            IN  [i \in 1..Len(texts) |-> json_loads(texts[i])] \o << literal_eval(txt) >>
        first_parsed(rs) ==
            IF \E i \in 1..Len(rs) : rs[i].ok
            THEN rs[CHOOSE i \in 1..Len(rs) : rs[i].ok /\ \A j \in 1..(i - 1) : ~rs[j].ok].val
            ELSE Val("str", value, <<>>)
    IN  first_parsed(attempts(strip(value)))

-----------------------------------------------------------------------------
(* docs_service.py: the OpenAPI synthesizer                                *)

\* the end of the match of ^https?://[^/]+ in url, 0 when it does not match
scheme_host_end(url) ==
    LET p == IF startswith(url, HttpPrefix) THEN Len(HttpPrefix)
             ELSE IF startswith(url, HttpsPrefix) THEN Len(HttpsPrefix)
             ELSE 0
        rest == SubSeq(url, p + 1, Len(url))
        e == IF find(rest, "/") = 0 THEN Len(url) ELSE p + find(rest, "/") - 1
    IN  IF p = 0 \/ e = p THEN 0 ELSE e

\* _infer_base_url without the rstrip("/") of line 192
_infer_base_url_hint_untrimmed(reqs, hint) ==
    IF hint.some /\ hint.v # <<>> THEN hint
    ELSE LET hits == {i \in 1..Len(reqs) : scheme_host_end(reqs[i].url) # 0}
         IN  IF hits = {} THEN None
             ELSE LET r == reqs[CHOOSE i \in hits : \A j \in hits : i <= j]
                  IN  Some(rstrip_chars(SubSeq(r.url, 1, scheme_host_end(r.url)), {"/"}))

\* hint is an Optional[str]; the result is one too
_infer_base_url(reqs, hint) ==
    IF hint.some /\ hint.v # <<>> THEN Some(rstrip_chars(hint.v, {"/"}))
    ELSE LET hits == {i \in 1..Len(reqs) : scheme_host_end(reqs[i].url) # 0}
         IN  IF hits = {} THEN None
             ELSE LET r == reqs[CHOOSE i \in hits : \A j \in hits : i <= j]
                  IN  Some(rstrip_chars(SubSeq(r.url, 1, scheme_host_end(r.url)), {"/"}))

_path_from_url(url, base_url) ==
    IF base_url.some /\ base_url.v # <<>> /\ startswith(url, base_url.v)
    THEN (IF Len(url) = Len(base_url.v) THEN Slash
          ELSE SubSeq(url, Len(base_url.v) + 1, Len(url)))
    ELSE IF scheme_host_end(url) # 0
         THEN (IF scheme_host_end(url) = Len(url) THEN Slash
               ELSE SubSeq(url, scheme_host_end(url) + 1, Len(url)))
         ELSE IF startswith(url, Slash) THEN url ELSE Slash \o url

Stars == <<"*", "*", "*">>
H_authorization == <<"a", "u", "t", "h", "o", "r", "i", "z", "a", "t", "i", "o", "n">>
ApiKeyHeaders ==
    {<<"x", "-", "a", "p", "i", "-", "k", "e", "y">>, <<"a", "p", "i", "-", "k", "e", "y">>}
W_bearer == <<"b", "e", "a", "r", "e", "r">>

\* lines 209-217 with every value kept
_mask_nothing(headers) == headers

_mask_sensitive(headers) ==
    [i \in 1..Len(headers) |->
        IF lower(headers[i][1]) \in {H_authorization} \cup ApiKeyHeaders
        THEN <<headers[i][1], Stars>>
        ELSE headers[i]]

IsAlnum(ch) == ch \in Digits \/ (\E i \in 1..26 : LowerLetters[i] = ch \/ UpperLetters[i] = ch)

\* re.sub(r"[^a-zA-Z0-9]", "_", s).strip("_")
operation_id(s) ==
    strip_chars([i \in 1..Len(s) |-> IF IsAlnum(s[i]) THEN s[i] ELSE "_"], {"_"})

\* the query parameters of lines 254-265 for the text after the "?"
query_parameters(query) ==
    LET qs == SelectSeq(split(query, "&"), LAMBDA q : q # <<>>)
    IN  [i \in 1..Len(qs) |->
            [in |-> "query", name |-> split(qs[i], "=")[1], required |-> FALSE,
             has_example |-> FALSE, example |-> <<>>]]

\* the test of line 269: re.fullmatch(r"[0-9a-fA-F-]{6,}", seg) or seg.isdigit()
is_id_segment(seg) ==
    \/ Len(seg) >= 6 /\ \A i \in 1..Len(seg) : seg[i] \in HexDigits \cup {"-"}
    \/ seg # <<>> /\ \A i \in 1..Len(seg) : seg[i] \in Digits

\* lines 268-278: the path after the path parameter heuristic
template_path(path) ==
    LET segs == split(path, "/")
        hits == {i \in 1..Len(segs) : is_id_segment(segs[i])}
    IN  IF hits = {} THEN path
        ELSE replace(path, Slash \o segs[CHOOSE i \in hits : \A j \in hits : i <= j],
                     <<"/", "{", "i", "d", "}">>)

path_parameters(path) ==
    IF \E i \in 1..Len(split(path, "/")) : is_id_segment(split(path, "/")[i])
    THEN << [in |-> "path", name |-> <<"i", "d">>, required |-> TRUE,
             has_example |-> FALSE, example |-> <<>>] >>
    ELSE <<>>

\* lines 281-293 on the masked headers: the header parameters
header_is_bearer(h) == lower(h[1]) = H_authorization /\ startswith(lower(h[2]), W_bearer)
\* the test of line 285 without lower()
header_is_api_key_exact(h) == h[1] \in ApiKeyHeaders
header_is_api_key(h) == lower(h[1]) \in ApiKeyHeaders

header_parameters(headers) ==
    LET kept == SelectSeq(headers, LAMBDA h : ~header_is_bearer(h) /\ ~header_is_api_key(h))
    IN  [i \in 1..Len(kept) |->
            [in |-> "header", name |-> kept[i][1], required |-> FALSE,
             has_example |-> TRUE, example |-> kept[i][2]]]

NoBody == [present |-> FALSE, schema |-> "", example |-> NullVal]

\* lines 296-317 with "if body is not None" for the "if body" of line 296
request_body_not_none(body) ==
    IF ~body.some THEN NoBody
    ELSE LET classified(coerced, strict) ==
                 IF coerced.t \in {"dict", "list"}
                 THEN [present |-> TRUE,
                       schema  |-> IF coerced.t = "dict" THEN "object" ELSE "array",
                       example |-> coerced]
                 ELSE IF strict.ok
                      THEN [present |-> TRUE, schema |-> "object", example |-> strict.val]
                      ELSE [present |-> TRUE, schema |-> "string",
                            example |-> Val("str", body.v, <<>>)]
         IN  classified(_coerce_json(body.v), json_loads(body.v))

\* lines 296-317
request_body(body) ==
    IF ~body.some \/ body.v = <<>> THEN NoBody
    ELSE LET classified(coerced, strict) ==
                 IF coerced.t \in {"dict", "list"}
                 THEN [present |-> TRUE,
                       schema  |-> IF coerced.t = "dict" THEN "object" ELSE "array",
                       example |-> coerced]
                 ELSE IF strict.ok
                      THEN [present |-> TRUE, schema |-> "object", example |-> strict.val]
                      ELSE [present |-> TRUE, schema |-> "string",
                            example |-> Val("str", body.v, <<>>)]
         IN  classified(_coerce_json(body.v), json_loads(body.v))

StandardErrors ==
    << [code |-> "400", description |-> "Bad Request"],
       [code |-> "401", description |-> "Unauthorized"],
       [code |-> "403", description |-> "Forbidden"],
       [code |-> "404", description |-> "Not Found"],
       [code |-> "429", description |-> "Too Many Requests"],
       [code |-> "500", description |-> "Internal Server Error"] >>

\* lines 320-329: the standard errors not already among the responses
with_standard_errors(responses) ==
    responses \o SelectSeq(StandardErrors,
                           LAMBDA e : \A i \in 1..Len(responses) : responses[i].code # e.code)

\* the method as the request holds it
method_as_parsed(r) == r.method

\* line 228: the key the operation is stored under
method_key(r) == lower(r.method)

\* the body of the loop over requests_payload (lines 228-331) for request r:
\* the key it is stored under, the Operation, and the two security flags
operation_of(r, base_url) ==
    LET method  == method_key(r)
        path    == _path_from_url(r.url, base_url)
        headers == _mask_sensitive(r.headers)
        segs    == SelectSeq(split(path, "/"), LAMBDA x : x # <<>>)
        q       == find(path, "?")
        path_only == IF q = 0 THEN path ELSE SubSeq(path, 1, q - 1)
        query   == IF q = 0 THEN <<>> ELSE SubSeq(path, q + 1, Len(path))
    IN  [method    |-> method,
         path_only |-> path_only,
         path      |-> template_path(path_only),
         bearer    |-> \E i \in 1..Len(headers) : header_is_bearer(headers[i]),
         api_key   |-> \E i \in 1..Len(headers) :
                           ~header_is_bearer(headers[i]) /\ header_is_api_key(headers[i]),
         op |-> [summary     |-> upper(method) \o <<" ">> \o path,
                 operationId |-> operation_id(method \o <<"_">> \o path),
                 tags        |-> << IF segs # <<>> THEN segs[1]
                                    ELSE <<"g", "e", "n", "e", "r", "a", "l">> >>,
                 parameters  |-> query_parameters(query) \o path_parameters(path_only)
                                 \o header_parameters(headers),
                 responses   |-> with_standard_errors(<< [code |-> "200", description |-> "OK"] >>),
                 requestBody |-> request_body(r.body),
                 description |-> None]]

\* paths.setdefault(path, {})[method] = op on the ordered dicts
ops_put(ops, method, op) ==
    IF \E i \in 1..Len(ops) : ops[i].method = method
    THEN [i \in 1..Len(ops) |->
             IF ops[i].method = method THEN [method |-> method, op |-> op] ELSE ops[i]]
    ELSE Append(ops, [method |-> method, op |-> op])

\* the same store keeping an operation already present
paths_put_keep_first(paths, path, method, op) ==
    IF \E i \in 1..Len(paths) : paths[i].path = path
    THEN [i \in 1..Len(paths) |->
             IF /\ paths[i].path = path
                /\ \A j \in 1..Len(paths[i].ops) : paths[i].ops[j].method # method
             THEN [path |-> path, ops |-> ops_put(paths[i].ops, method, op)]
             ELSE paths[i]]
    ELSE Append(paths, [path |-> path, ops |-> ops_put(<<>>, method, op)])

paths_put(paths, path, method, op) ==
    IF \E i \in 1..Len(paths) : paths[i].path = path
    THEN [i \in 1..Len(paths) |->
             IF paths[i].path = path
             THEN [path |-> path, ops |-> ops_put(paths[i].ops, method, op)]
             ELSE paths[i]]
    ELSE Append(paths, [path |-> path, ops |-> ops_put(<<>>, method, op)])

\* repr() of a Python str
repr_str(s) ==
    LET quote == IF (\E i \in 1..Len(s) : s[i] = "'") /\ (\A i \in 1..Len(s) : s[i] # "\"")
                 THEN "\"" ELSE "'"
        esc(ch) == CASE ch = "\\" -> <<"\\", "\\">>
                     [] ch = "\n" -> <<"\\", "n">>
                     [] ch = "\r" -> <<"\\", "r">>
                     [] ch = "\t" -> <<"\\", "t">>
                     [] ch = "\f" -> <<"\\", "x", "0", "c">>
                     [] ch = quote -> <<"\\", quote>>
                     [] OTHER -> << ch >>
    IN  << quote >> \o JoinWith([i \in 1..Len(s) |-> esc(s[i])], <<>>) \o << quote >>

\* repr() of a value that can be a dict key or a list of them
RECURSIVE py_repr(_)
py_repr(v) ==
    CASE v.t = "str" -> repr_str(v.s)
      [] v.t = "int" -> v.s
      [] v.t = "bool" -> IF v.s = W_true THEN W_True ELSE W_False
      [] v.t = "null" -> W_None
      [] v.t = "tuple" ->
            <<"(">> \o JoinWith([i \in 1..Len(v.items) |-> py_repr(v.items[i])], <<",", " ">>)
            \o (IF Len(v.items) = 1 THEN <<",">> ELSE <<>>) \o <<")">>
      [] OTHER ->
            <<"[">> \o JoinWith([i \in 1..Len(v.items) |-> py_repr(v.items[i])], <<",", " ">>)
            \o <<"]">>

MaxBodyKeys == 12
MaxDescription == 800

\* lines 363-376: the description of the operation op stored under p and m;
\* "U+0060" is the grave accent character
description_of(p, m, op) ==
    LET qs == SelectSeq(op.parameters, LAMBDA pr : pr.in = "query")
        query_names == [i \in 1..Len(qs) |-> Val("str", qs[i].name, <<>>)]
        ex == op.requestBody.example
        keys == IF op.requestBody.present /\ ex.t = "dict"
                THEN [i \in 1..Len(ex.items) |-> ex.items[i].items[1]]
                ELSE <<>>
        body_keys == SubSeq(keys, 1, IF Len(keys) < MaxBodyKeys THEN Len(keys) ELSE MaxBodyKeys)
        sentence ==
            (IF upper(m) = GET
             THEN <<"R", "e", "t", "r", "i", "e", "v", "e", "s">>
             ELSE <<"P", "r", "o", "c", "e", "s", "s", "e", "s">>)
            \o <<" ", "d", "a", "t", "a", " ", "f", "o", "r", " ", "U+0060">>
            \o p \o <<"U+0060">>
            \o (IF query_names # <<>>
                THEN <<" ", "w", "i", "t", "h", " ", "q", "u", "e", "r", "y", " ",
                       "f", "i", "l", "t", "e", "r", "s", " ">>
                     \o py_repr(Val("list", <<>>, query_names))
                ELSE <<>>)
            \o (IF body_keys # <<>>
                THEN <<" ", "u", "s", "i", "n", "g", " ", "b", "o", "d", "y", " ",
                       "f", "i", "e", "l", "d", "s", " ">>
                     \o py_repr(Val("list", <<>>, body_keys))
                ELSE <<>>)
            \o <<".">>
        cut == IF Len(sentence) < MaxDescription THEN Len(sentence) ELSE MaxDescription
    IN  SubSeq(sentence, 1, cut)

\* lines 359-376 over every stored operation
described(paths) ==
    [i \in 1..Len(paths) |->
        [path |-> paths[i].path,
         ops  |-> [j \in 1..Len(paths[i].ops) |->
                     [method |-> paths[i].ops[j].method,
                      op |-> [paths[i].ops[j].op EXCEPT
                                 !.description = Some(description_of(paths[i].path,
                                                                     paths[i].ops[j].method,
                                                                     paths[i].ops[j].op))]]]]]

\* lines 333-378: the document for the collected paths and flags.  The keys
\* securitySchemes and security are present iff their sequences are not empty.
openapi_of(project_name, base_url, paths, uses_bearer, uses_api_key, ai_enabled) ==
    LET schemes == (IF uses_bearer THEN << "bearerAuth" >> ELSE <<>>)
                   \o (IF uses_api_key THEN << "apiKeyAuth" >> ELSE <<>>)
    IN  [openapi |-> "3.0.3",
         title   |-> project_name \o <<" ", "A", "P", "I">>,
         servers |-> IF base_url.some /\ base_url.v # <<>> THEN << base_url.v >> ELSE <<>>,
         paths   |-> IF ai_enabled THEN described(paths) ELSE paths,
         securitySchemes |-> schemes,
         security |-> schemes]

\* the whole of build_openapi_from_requests, as the loop computes it
RECURSIVE collect(_, _, _)
collect(reqs, base_url, acc) ==
    IF reqs = <<>> THEN acc
    ELSE LET stored(o) ==
                 [paths   |-> paths_put(acc.paths, o.path, o.method, o.op),
                  bearer  |-> acc.bearer \/ o.bearer,
                  api_key |-> acc.api_key \/ o.api_key]
         IN  collect(Tail(reqs), base_url, stored(operation_of(Head(reqs), base_url)))

build_openapi_from_requests(project_name, base_url_hint, requests_payload, ai_enabled) ==
    LET document(base_url, c) ==
            openapi_of(project_name, base_url, c.paths, c.bearer, c.api_key, ai_enabled)
        synthesized(base_url) ==
            document(base_url, collect(requests_payload, base_url,
                                       [paths |-> <<>>, bearer |-> FALSE, api_key |-> FALSE]))
    IN  synthesized(_infer_base_url(requests_payload, base_url_hint))

-----------------------------------------------------------------------------
(* docs_service.py: render_markdown_from_openapi, default style            *)

\* json.dumps(v, indent=2) for a serializable v nested level containers deep
RECURSIVE json_dumps_indent(_, _)
RECURSIVE indent_items(_, _, _)
indent_items(items, isDict, level) ==
    IF items = <<>> THEN <<>>
    ELSE LET h == Head(items)
             key == IF h.items[1].t = "str" THEN json_dumps(h.items[1])
                    ELSE IF h.items[1].t = "null" THEN Quoted(W_null)
                    ELSE Quoted(h.items[1].s)
             one == <<"\n">> \o [i \in 1..(2 * level) |-> " "]
                    \o (IF isDict
                        THEN key \o <<":", " ">> \o json_dumps_indent(h.items[2], level)
                        ELSE json_dumps_indent(h, level))
         IN  IF Len(items) = 1 THEN one
             ELSE one \o <<",">> \o indent_items(Tail(items), isDict, level)

json_dumps_indent(v, level) ==
    IF v.t \in {"str", "int", "bool", "null"} \/ v.items = <<>> THEN json_dumps(v)
    ELSE (IF v.t = "dict" THEN <<"{">> ELSE <<"[">>)
         \o indent_items(v.items, v.t = "dict", level + 1)
         \o <<"\n">> \o [i \in 1..(2 * level) |-> " "]
         \o (IF v.t = "dict" THEN <<"}">> ELSE <<"]">>)

\* the value json.load reads back from what json.dump wrote for v
json_saved(v) == json_loads(json_dumps(v)).val

RECURSIVE Flatten(_)
Flatten(ss) == IF ss = <<>> THEN <<>> ELSE Head(ss) \o Flatten(Tail(ss))

\* the text of a Parameter's "in"
location_text(loc) ==
    CASE loc = "query" -> <<"q", "u", "e", "r", "y">>
      [] loc = "path" -> <<"p", "a", "t", "h">>
      [] OTHER -> <<"h", "e", "a", "d", "e", "r">>

\* the example of a request body can be rendered: json.dumps does not raise
renderable(op) ==
    op.requestBody.present /\ op.requestBody.example.t # "str"
        => Serializable(op.requestBody.example)

\* lines 583-602: the lines of one operation
operation_lines(method, op) ==
    << <<"#", "#", "#", " ">> \o upper(method) >>
    \o (IF op.summary # <<>> THEN << op.summary >> ELSE <<>>)
    \o (IF op.parameters # <<>>
        THEN << <<>>, <<"P", "a", "r", "a", "m", "e", "t", "e", "r", "s", ":">> >>
             \o [i \in 1..Len(op.parameters) |->
                    <<"-", " ">> \o location_text(op.parameters[i].in) \o <<" ", "U+0060">>
                    \o op.parameters[i].name \o <<"U+0060">>]
        ELSE <<>>)
    \o (IF op.requestBody.present
        THEN << <<>>, <<"R", "e", "q", "u", "e", "s", "t", " ", "B", "o", "d", "y", ":">> >>
             \o (IF op.requestBody.example.t = "null" THEN <<>>
                 ELSE << <<"U+0060", "U+0060", "U+0060", "j", "s", "o", "n", "\n">>
                         \o (IF op.requestBody.example.t = "str"
                             THEN op.requestBody.example.s
                             ELSE json_dumps_indent(op.requestBody.example, 0))
                         \o <<"\n", "U+0060", "U+0060", "U+0060">> >>)
        ELSE <<>>)

\* lines 569-604: [ok, text]; ok is FALSE when json.dumps raises TypeError
render_markdown_from_openapi(d) ==
    LET lines ==
            << <<"#", " ">> \o d.title, <<>> >>
            \o (IF d.servers # <<>>
                THEN << <<"S", "e", "r", "v", "e", "r", "s", ":">> >>
                     \o [i \in 1..Len(d.servers) |-> <<"-", " ">> \o d.servers[i]]
                     \o << <<>> >>
                ELSE <<>>)
            \o Flatten([i \in 1..Len(d.paths) |->
                   << <<"#", "#", " ">> \o d.paths[i].path >>
                   \o Flatten([j \in 1..Len(d.paths[i].ops) |->
                          operation_lines(d.paths[i].ops[j].method, d.paths[i].ops[j].op)])
                   \o << <<>> >>])
    IN  IF \A i \in 1..Len(d.paths) : \A j \in 1..Len(d.paths[i].ops) :
               renderable(d.paths[i].ops[j].op)
        THEN [ok |-> TRUE, text |-> strip(JoinWith(lines, <<"\n">>)) \o <<"\n">>]
        ELSE [ok |-> FALSE, text |-> <<>>]

-----------------------------------------------------------------------------
(* parse_curl as a two-step call: tokenize, then extract the fields        *)

\* longest word list of a generated command
MaxWords == 3

\* the words commands are written from, quotes included
W_X == <<"-", "X">>
W_request == <<"-", "-", "r", "e", "q", "u", "e", "s", "t">>
W_d == <<"-", "d">>
W_data_raw == <<"-", "-", "d", "a", "t", "a", "-", "r", "a", "w">>
W_post == <<"p", "o", "s", "t">>
W_put_q == <<"'", " ", "p", "u", "t", " ", "'">>
W_blank_q == <<"'", " ", "'">>
W_url == <<"h", "t", "t", "p", ":", "/", "/", "h", "/", "p">>
W_json_q == <<"'", "{", "\"", "a", "\"", ":", "1", "}", "'">>
W_H == <<"-", "H">>
W_hdr_q == <<"'", "K", ":", " ", "v", "'">>
W_path == <<"/", "p">>

Words == {W_X, W_request, W_d, W_data_raw, W_post, W_put_q, W_blank_q,
          W_url, W_json_q, W_H, W_hdr_q, W_path}

\* the parts of the commands  curl -X POST <url> -H '<K>: <V>' -d '<json>'
U_https == <<"h", "t", "t", "p", "s", ":", "/", "/", "h", "/", "p">>
U_query == <<"h", "t", "t", "p", ":", "/", "/", "h", "/", "u", "/", "1", "?", "x", "=", "1">>
K_plain == <<"K">>
K_trace == <<"X", "-", "T", "r", "a", "c", "e">>
V_plain == <<"V">>
V_words == <<"v", " ", "w">>
V_colon == <<"a", ":", "b">>
J_obj == <<"{", "\"", "a", "\"", ":", "1", "}">>
J_esc == <<"{", "\"", "a", "\"", ":", "\"", "x", "\\", "n", "y", "\"", "}">>
J_str == <<"\"", "a", "b", "\"">>
J_arr == <<"[", "1", ",", " ", "2", "]">>
J_num == <<"1">>
J_pad == <<" ", "1", " ">>
J_uni == <<"{", "\"", "a", "\"", ":", "\"", "U+00E9", "\"", "}">>

PostUrls == {U_https, U_query}
PostKeys == {K_plain, K_trace}
PostVals == {V_plain, V_words, V_colon}
PostJsons == {J_obj, J_esc, J_str, J_arr, J_num, J_pad, J_uni}

RECURSIVE JoinWords(_)
JoinWords(ws) ==
    IF ws = <<>> THEN <<>>
    ELSE IF Len(ws) = 1 THEN ws[1]
    ELSE ws[1] \o <<" ">> \o JoinWords(Tail(ws))

WordsShape(ws) ==
    [kind |-> "words", words |-> ws, url |-> <<>>, k |-> <<>>, v |-> <<>>, json |-> <<>>]
PostShape(u, k, v, j) ==
    [kind |-> "post", words |-> <<>>, url |-> u, k |-> k, v |-> v, json |-> j]

WordsCommand(ws) == CurlPrefix \o JoinWords(ws)
PostCommand(u, k, v, j) ==
    <<"c", "u", "r", "l", " ", "-", "X", " ", "P", "O", "S", "T", " ">> \o u
    \o <<" ", "-", "H", " ", "'">> \o k \o <<":", " ">> \o v
    \o <<"'", " ", "-", "d", " ", "'">> \o j \o <<"'">>

NoRequest == [method |-> <<>>, url |-> <<>>, headers |-> <<>>, body |-> None]

NoPayload == [curls_text |-> <<>>, curls |-> <<>>]

NoBuild ==
    [project_name |-> <<>>, base_url_hint |-> None, requests_payload |-> <<>>,
     ai_enabled |-> FALSE, base_url |-> None, i |-> 1, paths |-> <<>>,
     uses_bearer |-> FALSE, uses_api_key |-> FALSE, last |-> <<>>]

NoDoc ==
    [openapi |-> "", title |-> <<>>, servers |-> <<>>, paths |-> <<>>,
     securitySchemes |-> <<>>, security |-> <<>>]

BuildIdle ==
    /\ build = NoBuild
    /\ doc = NoDoc

P_one == <<"p", "1">>
P_two == <<"p", "2">>
ProjectIds == {P_one, P_two}

\* a project id without a directory; the files are sequences of zero or one
NoProject ==
    [exists |-> FALSE, project_name |-> <<>>, inputs |-> <<>>, openapi |-> <<>>,
     markdown |-> <<>>]

NoResponse == [call |-> "none", project_id |-> <<>>, status |-> 0, count |-> 0]

ServiceIdle ==
    /\ store = [p \in ProjectIds |-> NoProject]
    /\ response = NoResponse
    /\ history = [p \in ProjectIds |-> <<>>]
    /\ calls = 0

CallIdle ==
    /\ arg = <<>>
    /\ result = <<>>

InputsIdle ==
    /\ payload = NoPayload
    /\ curls = <<>>
    /\ requests = <<>>
    /\ leftovers = <<>>
    /\ fallback = FALSE

ParseIdle ==
    /\ cmd = <<>>
    /\ tokens = <<>>
    /\ parsed = NoRequest

InitParse ==
    /\ pc = "parse_curl"
    /\ tokens = <<>>
    /\ parsed = NoRequest
    /\ InputsIdle
    /\ BuildIdle
    /\ ServiceIdle
    /\ CallIdle
    /\ \/ \E n \in 0..MaxWords : \E ws \in [1..n -> Words] :
              shape = WordsShape(ws) /\ cmd = WordsCommand(ws)
       \/ \E u \in PostUrls, k \in PostKeys, v \in PostVals, j \in PostJsons :
              shape = PostShape(u, k, v, j) /\ cmd = PostCommand(u, k, v, j)

\* docs_service.py line 153
Tokenize ==
    /\ pc = "parse_curl"
    /\ tokens' = _shell_split(curl_args(cmd))
    /\ pc' = "tokenized"
    /\ UNCHANGED <<cmd, shape, parsed, inputVars, buildVars, serviceVars, callVars>>

\* docs_service.py lines 154-159
Extract ==
    /\ pc = "tokenized"
    /\ parsed' = request_of(tokens)
    /\ pc' = "parsed"
    /\ UNCHANGED <<cmd, shape, tokens, inputVars, buildVars, serviceVars, callVars>>

NextParse == Tokenize \/ Extract

SpecParse == InitParse /\ [][NextParse]_vars

-----------------------------------------------------------------------------
(* Properties of parse_curl                                                *)

\* some flag of the set fs is followed by a token
HasFlagValue(toks, fs) == \E i \in 1..Len(toks) : toks[i] \in fs /\ i < Len(toks)

\* the token that follows the first flag of fs
FirstFlagValue(toks, fs) ==
    toks[1 + CHOOSE i \in 1..Len(toks) :
                 toks[i] \in fs /\ \A j \in 1..(i - 1) : ~(toks[j] \in fs)]

\* a text that stripping and escape decoding leave alone: ASCII, no
\* backslash, no whitespace or quote character at either end
PlainText(s) ==
    /\ s # <<>>
    /\ \A i \in 1..Len(s) : s[i] # "\\" /\ s[i] # "U+00E9"
    /\ ~(s[1] \in WS \cup QuoteChars)
    /\ ~(s[Len(s)] \in WS \cup QuoteChars)

\* C8 as stated: for a command curl -X POST <url> -H '<K>: <V>' -d '<json>'
\* parse_curl returns method POST, the url, the headers {K: V} and a body that
\* is the JSON text exactly as written between the quotes.
C8_BodyAsWritten ==
    (pc = "parsed" /\ shape.kind = "post") =>
        parsed = [method  |-> POST,
                  url     |-> shape.url,
                  headers |-> << <<shape.k, shape.v>> >>,
                  body    |-> Some(shape.json)]

\* C8 amended: method, url and headers are as stated and a body is always
\* returned; the body is the JSON text exactly as written whenever that text
\* is ASCII, has no backslash and neither begins nor ends with whitespace or
\* a quote character.
C8_PostCommand ==
    (pc = "parsed" /\ shape.kind = "post") =>
        /\ parsed.method = POST
        /\ parsed.url = shape.url
        /\ parsed.headers = << <<shape.k, shape.v>> >>
        /\ parsed.body.some
        /\ PlainText(shape.json) => parsed.body.v = shape.json

C8_Witness ==
    /\ pc = "parsed" /\ shape.kind = "post"
    /\ shape.json = J_obj /\ shape.v = V_words
    /\ parsed.body = Some(J_obj)
    /\ parsed.headers = << <<shape.k, V_words>> >>

\* C9 as stated: the method is upper-case; it is the upper-cased token that
\* follows the first -X/--request flag when that flag has a following token,
\* otherwise POST if a data flag is followed by a token, otherwise GET.
C9_MethodAsStated ==
    pc = "parsed" =>
        /\ parsed.method = upper(parsed.method)
        /\ parsed.method =
             IF HasFlagValue(tokens, MethodFlags)
             THEN upper(FirstFlagValue(tokens, MethodFlags))
             ELSE IF HasFlagValue(tokens, DataFlags) THEN POST ELSE GET

\* C9 amended: the value after the first -X/--request flag is trimmed of
\* surrounding whitespace before it is upper-cased, and a value that is blank
\* after trimming counts as no method flag (POST/GET default applies).
C9_Method ==
    pc = "parsed" =>
        /\ parsed.method = upper(parsed.method)
        /\ parsed.method # <<>>
        /\ parsed.method =
             IF /\ HasFlagValue(tokens, MethodFlags)
                /\ strip(FirstFlagValue(tokens, MethodFlags)) # <<>>
             THEN upper(strip(FirstFlagValue(tokens, MethodFlags)))
             ELSE IF HasFlagValue(tokens, DataFlags) THEN POST ELSE GET

C9_Witness ==
    /\ pc = "parsed" /\ shape.kind = "words"
    /\ Len(tokens) = 3
    /\ tokens[1] \in DataFlags
    /\ tokens[2] \in MethodFlags
    /\ tokens[3] = <<" ", "p", "u", "t", " ">>
    /\ parsed.method = <<"P", "U", "T">>

-----------------------------------------------------------------------------
(* parse_curl_inputs step by step: normalize, partition, fallback          *)

\* most chunks in a text blob, most items in the explicit list
MaxChunks == 2
MaxItems == 2

C_get == <<"c", "u", "r", "l", " ", "h", "t", "t", "p", ":", "/", "/", "h", "/", "p">>
C_post == <<"c", "u", "r", "l", " ", "-", "d", " ", "'", "{", "\"", "a", "\"", ":", "1", "}", "'", " ", "/", "p">>
C_lead == <<" ", "c", "u", "r", "l", " ", "/", "x">>
T_json == <<"{", "\"", "f", "o", "o", "\"", ":", " ", " ", " ", "\"", "b", "a", "r", "\"", "}">>
T_open == <<"[", "1", ",">>
T_close == <<"2", "]">>
T_word == <<"h", "e", "l", "l", "o">>
T_blank == <<" ", "\t">>

\* chunks a text blob is written from, and items of the explicit list
TextChunks == {C_get, C_post, T_json, T_open, T_close}
ListItems == {C_get, C_lead, T_word, T_blank}

\* two ways of writing the blank line between chunks
BlankLines == { <<"\n", "\n">>, <<"\n", " ", "\t", "\n", "\n", " ">> }

InputShape(cs, sep, items) == [kind |-> "inputs", chunks |-> cs, sep |-> sep, items |-> items]

InitInputs ==
    /\ pc = "parse_curl_inputs"
    /\ ParseIdle
    /\ BuildIdle
    /\ ServiceIdle
    /\ CallIdle
    /\ curls = <<>>
    /\ requests = <<>>
    /\ leftovers = <<>>
    /\ fallback = FALSE
    /\ \E n \in 0..MaxChunks, m \in 0..MaxItems :
       \E cs \in [1..n -> TextChunks], sep \in BlankLines, items \in [1..m -> ListItems] :
          /\ shape = InputShape(cs, sep, items)
          /\ payload = [curls_text |-> JoinWith(cs, sep), curls |-> items]

\* docs_service.py line 163
Normalize ==
    /\ pc = "parse_curl_inputs"
    /\ curls' = _normalize_curls(payload.curls_text, payload.curls)
    /\ pc' = "normalized"
    /\ UNCHANGED <<shape, parseVars, payload, requests, leftovers, fallback, buildVars, serviceVars, callVars>>

\* docs_service.py lines 164-170
Partition ==
    /\ pc = "normalized"
    /\ requests' = curl_requests(curls)
    /\ leftovers' = curl_leftovers(curls)
    /\ pc' = "partitioned"
    /\ UNCHANGED <<shape, parseVars, payload, curls, fallback, buildVars, serviceVars, callVars>>

\* docs_service.py lines 172-187
Fallback ==
    /\ pc = "partitioned"
    /\ requests' = requests \o fallback_requests(requests, leftovers)
    /\ fallback' = (fallback_requests(requests, leftovers) # <<>>)
    /\ pc' = "inputs_done"
    /\ UNCHANGED <<shape, parseVars, payload, curls, leftovers, buildVars, serviceVars, callVars>>

NextInputs == Normalize \/ Partition \/ Fallback

SpecInputs == InitInputs /\ [][NextInputs]_vars

-----------------------------------------------------------------------------
(* Properties of parse_curl_inputs                                         *)

Range(f) == {f[i] : i \in DOMAIN f}

\* the chunks the payload was written with: the non-blank list items as
\* given and the chunks of the text blob
WrittenChunks ==
    {c \in Range(shape.items) : strip(c) # <<>>} \cup Range(shape.chunks)

WrittenCurlChunks == {c \in WrittenChunks : startswith(c, CurlPrefix)}

\* the written chunks in input order: list items first, then the text
WrittenOrder == shape.items \o shape.chunks

\* the distinct written chunks that do not start with "curl ", newline-joined
WrittenLeftovers ==
    strip(JoinWith(SelectSeq(unique_in_order(WrittenOrder, {}),
                             LAMBDA c : strip(c) # <<>> /\ ~startswith(c, CurlPrefix)),
                   <<"\n">>))

\* the leftovers, newline-joined, are one JSON value
LeftoversAreJson == json_loads(WrittenLeftovers).ok

\* C7: the JSON fallback request (POST / with Content-Type application/json
\* and the re-serialized JSON as body) is produced only when no chunk starts
\* with "curl " and the newline-joined leftovers are one JSON value, and is
\* then the only request; when some chunk starts with "curl ", the result
\* holds one parsed request per distinct such chunk and no fallback request.
C7_Fallback ==
    pc = "inputs_done" =>
        /\ fallback => /\ WrittenCurlChunks = {}
                       /\ LeftoversAreJson
                       /\ Len(requests) = 1
                       /\ requests[1].method = POST
                       /\ requests[1].url = Slash
                       /\ requests[1].headers = ContentTypeJson
                       /\ requests[1].body = Some(json_dumps(json_loads(WrittenLeftovers).val))
        /\ WrittenCurlChunks # {} =>
               /\ ~fallback
               /\ Len(requests) = Cardinality(WrittenCurlChunks)
               /\ {requests[i] : i \in 1..Len(requests)}
                      = {parse_curl(c) : c \in WrittenCurlChunks}

\* the spec's scenario: curls_text {"foo":   "bar"} alone gives the single
\* request POST / with body {"foo": "bar"}
C7_Witness ==
    /\ pc = "inputs_done"
    /\ payload = [curls_text |-> T_json, curls |-> <<>>]
    /\ fallback
    /\ requests = << [method  |-> POST, url |-> Slash, headers |-> ContentTypeJson,
                      body |-> Some(<<"{", "\"", "f", "o", "o", "\"", ":", " ", "\"", "b", "a", "r", "\"", "}">>)] >>

-----------------------------------------------------------------------------
(* build_openapi_from_requests, one step per loop iteration                *)

MaxBatch == 2

\* curl -H 'Authorization: Bearer t' http://h/u/12345/o
B_bearer ==
    <<"c", "u", "r", "l", " ", "-", "H", " ", "'", "A", "u", "t", "h", "o",
      "r", "i", "z", "a", "t", "i", "o", "n", ":", " ", "B", "e", "a", "r",
      "e", "r", " ", "t", "'", " ", "h", "t", "t", "p", ":", "/", "/", "h",
      "/", "u", "/", "1", "2", "3", "4", "5", "/", "o">>
\* curl http://h/a/123/b/123
B_twice ==
    <<"c", "u", "r", "l", " ", "h", "t", "t", "p", ":", "/", "/", "h", "/",
      "a", "/", "1", "2", "3", "/", "b", "/", "1", "2", "3">>
\* curl http://h/a/12/123
B_prefix ==
    <<"c", "u", "r", "l", " ", "h", "t", "t", "p", ":", "/", "/", "h", "/",
      "a", "/", "1", "2", "/", "1", "2", "3">>
\* curl -H 'X-API-Key: k' -d '{"a": 1}' http://h/u/12345/o
B_post ==
    <<"c", "u", "r", "l", " ", "-", "H", " ", "'", "X", "-", "A", "P", "I",
      "-", "K", "e", "y", ":", " ", "k", "'", " ", "-", "d", " ", "'", "{",
      "\"", "a", "\"", ":", " ", "1", "}", "'", " ", "h", "t", "t", "p", ":",
      "/", "/", "h", "/", "u", "/", "1", "2", "3", "4", "5", "/", "o">>
\* curl -H 'Accept: json' 'http://h/u/12345/o?x=1&y=2'
B_query ==
    <<"c", "u", "r", "l", " ", "-", "H", " ", "'", "A", "c", "c", "e", "p",
      "t", ":", " ", "j", "s", "o", "n", "'", " ", "'", "h", "t", "t", "p",
      ":", "/", "/", "h", "/", "u", "/", "1", "2", "3", "4", "5", "/", "o",
      "?", "x", "=", "1", "&", "y", "=", "2", "'">>
\* curl -d "{'a': {1, 2}}" http://h/i
B_set ==
    <<"c", "u", "r", "l", " ", "-", "d", " ", "\"", "{", "'", "a", "'", ":",
      " ", "{", "1", ",", " ", "2", "}", "}", "\"", " ", "h", "t", "t", "p",
      ":", "/", "/", "h", "/", "i">>
\* curl -X get -H 'authorization: bearer x' http://h/a/b
B_lower ==
    <<"c", "u", "r", "l", " ", "-", "X", " ", "g", "e", "t", " ", "-", "H",
      " ", "'", "a", "u", "t", "h", "o", "r", "i", "z", "a", "t", "i", "o",
      "n", ":", " ", "b", "e", "a", "r", "e", "r", " ", "x", "'", " ", "h",
      "t", "t", "p", ":", "/", "/", "h", "/", "a", "/", "b">>
\* curl -d hello https://k/i/abcdef12
B_text ==
    <<"c", "u", "r", "l", " ", "-", "d", " ", "h", "e", "l", "l", "o", " ",
      "h", "t", "t", "p", "s", ":", "/", "/", "k", "/", "i", "/", "a", "b",
      "c", "d", "e", "f", "1", "2">>
\* curl -H 'Authorization: Basic x' http://h/u/99999/o
B_basic ==
    <<"c", "u", "r", "l", " ", "-", "H", " ", "'", "A", "u", "t", "h", "o",
      "r", "i", "z", "a", "t", "i", "o", "n", ":", " ", "B", "a", "s", "i",
      "c", " ", "x", "'", " ", "h", "t", "t", "p", ":", "/", "/", "h", "/",
      "u", "/", "9", "9", "9", "9", "9", "/", "o">>
\* curl -X PUT -d '[1, 2]' http://h/i
B_list ==
    <<"c", "u", "r", "l", " ", "-", "X", " ", "P", "U", "T", " ", "-", "d",
      " ", "'", "[", "1", ",", " ", "2", "]", "'", " ", "h", "t", "t", "p",
      ":", "/", "/", "h", "/", "i">>
\* curl http://h/u
B_plain ==
    <<"c", "u", "r", "l", " ", "h", "t", "t", "p", ":", "/", "/", "h", "/",
      "u">>

BuildCurls ==
    {B_bearer, B_twice, B_prefix, B_post, B_query, B_set, B_lower, B_text,
     B_basic, B_list, B_plain}

\* curl http:///x
E_nohost ==
    <<"c", "u", "r", "l", " ", "h", "t", "t", "p", ":", "/", "/", "/", "x">>
\* curl http://k?x=1
E_query ==
    <<"c", "u", "r", "l", " ", "h", "t", "t", "p", ":", "/", "/", "k", "?",
      "x", "=", "1">>

\* curl -H 'api-key: k' http://h/u
E_key == <<"c", "u", "r", "l", " ", "-", "H", " ", "'", "a", "p", "i", "-", "k", "e", "y",
      ":", " ", "k", "'", " ", "h", "t", "t", "p", ":", "/", "/", "h", "/", "u">>
\* curl http://hh/x
E_hh == <<"c", "u", "r", "l", " ", "h", "t", "t", "p", ":", "/", "/", "h", "h", "/", "x">>
\* curl http://h/us
E_us == <<"c", "u", "r", "l", " ", "h", "t", "t", "p", ":", "/", "/", "h", "/", "u", "s">>

\* commands whose URLs are at the edges of the base URL resolution, and a
\* command with a credential that collides with B_plain
EdgeCurls == {E_nohost, E_query, B_plain, E_key, E_hh}

\* Demo
N_demo ==
    <<"D", "e", "m", "o">>
\* http://h/
Hint_host ==
    <<"h", "t", "t", "p", ":", "/", "/", "h", "/">>
\* http://h/u
Hint_users ==
    <<"h", "t", "t", "p", ":", "/", "/", "h", "/", "u">>

BaseUrlHints == {None, Some(Hint_host), Some(Hint_users)}

\* the hints that resolve to no base URL: absent, empty, all slashes
EdgeHints == {None, Some(<<>>), Some(Slash)}

\* commands whose URLs begin with the text of a hint without lying under it
PrefixCurls == {E_us, E_hh}

\* curl -d ' ' http://h/u
D_blank == <<"c", "u", "r", "l", " ", "-", "d", " ", "'", " ", "'", " ", "h", "t", "t", "p",
      ":", "/", "/", "h", "/", "u">>
\* curl -d '(1, 2)' http://h/u
D_tuple == <<"c", "u", "r", "l", " ", "-", "d", " ", "'", "(", "1", ",", " ", "2", ")", "'",
      " ", "h", "t", "t", "p", ":", "/", "/", "h", "/", "u">>
\* curl -d 5 http://h/u
D_scalar == <<"c", "u", "r", "l", " ", "-", "d", " ", "5", " ", "h", "t", "t", "p", ":", "/",
      "/", "h", "/", "u">>

\* commands whose bodies are blank, a Python tuple and a JSON number
BodyCurls == {D_blank, D_tuple, D_scalar}

\* the calls of build_openapi_from_requests: every batch of BuildCurls under
\* every hint of BaseUrlHints, every batch of EdgeCurls under EdgeHints,
\* every batch of PrefixCurls under the hints that are given, and every
\* batch of BodyCurls without a hint
BuildCalls ==
    UNION {([1..n -> BuildCurls] \X BaseUrlHints \X BOOLEAN)
           \cup ([1..n -> EdgeCurls] \X EdgeHints \X {FALSE})
           \cup ([1..n -> PrefixCurls] \X (BaseUrlHints \ {None}) \X {FALSE})
           \cup ([1..n -> BodyCurls] \X {None} \X {FALSE}) : n \in 0..MaxBatch}

\* the batch is what parse_curl returned for each command of cs
InitBuild ==
    /\ pc = "build_openapi"
    /\ ParseIdle
    /\ InputsIdle
    /\ ServiceIdle
    /\ CallIdle
    /\ doc = NoDoc
    /\ \E c \in BuildCalls :
          /\ shape = c[1]
          /\ build = [NoBuild EXCEPT !.project_name = N_demo,
                                     !.base_url_hint = c[2],
                                     !.requests_payload = [i \in 1..Len(c[1]) |-> parse_curl(c[1][i])],
                                     !.ai_enabled = c[3]]

\* docs_service.py lines 222-225
BuildStart ==
    /\ pc = "build_openapi"
    /\ build' = [build EXCEPT
                    !.base_url = _infer_base_url(build.requests_payload, build.base_url_hint)]
    /\ pc' = "build_loop"
    /\ UNCHANGED <<shape, parseVars, inputVars, doc, serviceVars, callVars>>

\* docs_service.py lines 227-331, one iteration
BuildRequest ==
    /\ pc = "build_loop"
    /\ build.i <= Len(build.requests_payload)
    /\ LET stored(o) ==
               [build EXCEPT
                   !.i = @ + 1,
                   !.paths = paths_put(@, o.path, o.method, o.op),
                   !.uses_bearer = @ \/ o.bearer,
                   !.uses_api_key = @ \/ o.api_key,
                   !.last = << o >>]
       IN  build' = stored(operation_of(build.requests_payload[build.i], build.base_url))
    /\ UNCHANGED <<pc, shape, parseVars, inputVars, doc, serviceVars, callVars>>

\* docs_service.py lines 333-378
BuildFinish ==
    /\ pc = "build_loop"
    /\ build.i > Len(build.requests_payload)
    /\ doc' = openapi_of(build.project_name, build.base_url, build.paths,
                         build.uses_bearer, build.uses_api_key, build.ai_enabled)
    /\ pc' = "built"
    /\ UNCHANGED <<shape, parseVars, inputVars, build, serviceVars, callVars>>

NextBuild == BuildStart \/ BuildRequest \/ BuildFinish

SpecBuild == InitBuild /\ [][NextBuild]_vars

-----------------------------------------------------------------------------
(* Properties of build_openapi_from_requests                               *)

\* the operation stored in the document d under path p and method m, as a
\* sequence of zero or one operations
StoredOps(d, p, m) ==
    LET ps == SelectSeq(d.paths, LAMBDA e : e.path = p)
        ms == IF ps = <<>> THEN <<>> ELSE SelectSeq(ps[1].ops, LAMBDA e : e.method = m)
    IN  [i \in 1..Len(ms) |-> ms[i].op]

AllOps(d) ==
    {d.paths[i].ops[j].op : <<i, j>> \in
        {x \in (1..Len(d.paths)) \X (1..8) : x[2] <= Len(d.paths[x[1]].ops)}}

HasBearerHeader(r) ==
    \E i \in 1..Len(r.headers) :
        /\ lower(r.headers[i][1]) = H_authorization
        /\ startswith(lower(r.headers[i][2]), W_bearer)

\* C1: a batch with a request carrying an Authorization header whose value
\* starts, in any letter case, with "bearer" gives a document with the
\* bearerAuth security scheme, a bearerAuth entry in the top-level security,
\* and no header Parameter named Authorization in any operation.
C1_BearerScheme ==
    (pc = "built" /\ \E i \in 1..Len(build.requests_payload) :
                         HasBearerHeader(build.requests_payload[i]))
    => /\ \E k \in 1..Len(doc.securitySchemes) : doc.securitySchemes[k] = "bearerAuth"
       /\ \E k \in 1..Len(doc.security) : doc.security[k] = "bearerAuth"
       /\ \A op \in AllOps(doc) : \A k \in 1..Len(op.parameters) :
              ~(op.parameters[k].in = "header"
                /\ lower(op.parameters[k].name) = H_authorization)

\* the path with only the first id segment replaced by {id}
FirstSegmentTemplated(path) ==
    LET segs == split(path, "/")
        hits == {i \in 1..Len(segs) : is_id_segment(segs[i])}
        first == CHOOSE i \in hits : \A j \in hits : i <= j
    IN  IF hits = {} THEN path
        ELSE JoinWith([segs EXCEPT ![first] = <<"{", "i", "d", "}">>], Slash)

PathParameters(op) == SelectSeq(op.parameters, LAMBDA pr : pr.in = "path")

\* C2: for the request just processed, the path template is the path with
\* exactly the first id segment replaced by {id}, every other segment as it
\* was, and the operation has one required path Parameter named id; a path
\* without an id segment is unchanged and has no path Parameter.
C2_OneSegmentTemplated ==
    (pc = "build_loop" /\ build.last # <<>>)
    => LET o == build.last[1]
       IN  /\ o.path = FirstSegmentTemplated(o.path_only)
           /\ IF o.path = o.path_only /\ ~(\E i \in 1..Len(split(o.path_only, "/")) :
                                               is_id_segment(split(o.path_only, "/")[i]))
              THEN PathParameters(o.op) = <<>>
              ELSE /\ Len(PathParameters(o.op)) = 1
                   /\ PathParameters(o.op)[1].name = <<"i", "d">>
                   /\ PathParameters(o.op)[1].required

\* the indexes of the requests of the batch stored under path p, method m
Colliding(p, m) ==
    {i \in 1..Len(build.requests_payload) :
        LET o == operation_of(build.requests_payload[i], build.base_url)
        IN  o.path = p /\ o.method = m}

\* the operation the document holds for an operation op the loop built
Returned(p, m, op) ==
    IF build.ai_enabled
    THEN [op EXCEPT !.description = Some(description_of(p, m, op))]
    ELSE op

\* C6: the Operation the returned document stores under a path template and
\* a lower-case method is the one built from the last request of the batch
\* that resolves to that pair, and from that request alone.
C6_LastRequestWins ==
    pc = "built" =>
        \A i \in 1..Len(build.requests_payload) :
            LET o == operation_of(build.requests_payload[i], build.base_url)
                hits == Colliding(o.path, o.method)
                last == CHOOSE j \in hits : \A k \in hits : k <= j
            IN  StoredOps(doc, o.path, o.method) =
                    << Returned(o.path, o.method,
                                operation_of(build.requests_payload[last], build.base_url).op) >>

\* two requests collided, their operations differ, the later one is stored
C6_Witness ==
    /\ pc = "built"
    /\ \E i, j \in 1..Len(build.requests_payload) :
          LET a == operation_of(build.requests_payload[i], build.base_url)
              b == operation_of(build.requests_payload[j], build.base_url)
          IN  /\ i < j
              /\ a.path = b.path /\ a.method = b.method
              /\ a.op.parameters # b.op.parameters
              /\ a.op.summary # b.op.summary
              /\ StoredOps(doc, b.path, b.method) = << Returned(b.path, b.method, b.op) >>

ResponseCodes(op) == {op.responses[k].code : k \in 1..Len(op.responses)}

\* C10: in the returned document every method key is lower-case and every
\* Operation has responses for 200, 400, 401, 403, 404, 429 and 500, one
\* entry per code, the 200 entry with the description "OK".
C10_MethodsAndResponses ==
    pc = "built" =>
        /\ \A i \in 1..Len(doc.paths) : \A j \in 1..Len(doc.paths[i].ops) :
               doc.paths[i].ops[j].method = lower(doc.paths[i].ops[j].method)
        /\ \A op \in AllOps(doc) :
               /\ ResponseCodes(op) = {"200", "400", "401", "403", "404", "429", "500"}
               /\ Len(op.responses) = 7
               /\ \A k \in 1..Len(op.responses) :
                      op.responses[k].code = "200" => op.responses[k].description = "OK"

\* a document with an operation whose request held an upper-case method
C10_Witness ==
    /\ pc = "built"
    /\ doc.paths # <<>>
    /\ \E i \in 1..Len(build.requests_payload) :
          /\ build.requests_payload[i].method # lower(build.requests_payload[i].method)
          /\ StoredOps(doc, operation_of(build.requests_payload[i], build.base_url).path,
                       lower(build.requests_payload[i].method)) # <<>>

-----------------------------------------------------------------------------
(* The endpoints: upload, ingest and generate, called one at a time        *)

MaxCalls == 4

Pay_plain == [curls_text |-> <<>>, curls |-> << B_plain >>]
Pay_pair == [curls_text |-> B_plain \o <<"\n", "\n">> \o B_twice, curls |-> <<>>]
Pay_set == [curls_text |-> <<>>, curls |-> << B_set >>]
Pay_none == [curls_text |-> <<"h", "e", "l", "l", "o">>, curls |-> <<>>]
\* curl -d "{1: 'a', '1': 'b'}" http://h/u
B_keys ==
    <<"c", "u", "r", "l", " ", "-", "d", " ", "\"", "{", "1", ":", " ", "'",
    "a", "'", ",", " ", "'", "1", "'", ":", " ", "'", "b", "'", "}", "\"",
    " ", "h", "t", "t", "p", ":", "/", "/", "h", "/", "u">>
Pay_keys == [curls_text |-> <<>>, curls |-> << B_keys >>]
IngestPayloads == {Pay_plain, Pay_pair, Pay_set, Pay_none, Pay_keys}

GenerateOptions ==
    {[project_name |-> None, base_url |-> None, ai_enabled |-> TRUE],
     [project_name |-> Some(N_demo), base_url |-> Some(Hint_host), ai_enabled |-> FALSE]}

UploadNames == {<<>>, N_demo}

\* what load_docs_openapi reads back after save_docs_openapi(d)
saved_document(d) ==
    [d EXCEPT !.paths =
        [i \in 1..Len(d.paths) |->
            [path |-> d.paths[i].path,
             ops  |-> [j \in 1..Len(d.paths[i].ops) |->
                         [method |-> d.paths[i].ops[j].method,
                          op |-> [d.paths[i].ops[j].op EXCEPT
                                     !.requestBody.example = json_saved(@)]]]]]]

\* a save that keeps the requests already in the file
save_docs_inputs_appending(st, p, data) ==
    [st EXCEPT ![p].inputs = IF @ = <<>> THEN << data >> ELSE << @[1] \o data >>]

\* storage_service.py save_docs_inputs: the file is rewritten
save_docs_inputs(st, p, data) == [st EXCEPT ![p].inputs = << data >>]

InitService ==
    /\ pc = "serving"
    /\ shape = <<>>
    /\ ParseIdle
    /\ InputsIdle
    /\ BuildIdle
    /\ ServiceIdle
    /\ CallIdle

\* routers/sop.py upload_project: a fresh id gets a directory and metadata
Upload(p, name) ==
    /\ calls < MaxCalls
    /\ ~store[p].exists
    /\ store' = [store EXCEPT ![p] = [NoProject EXCEPT !.exists = TRUE, !.project_name = name]]
    /\ response' = [call |-> "upload", project_id |-> p, status |-> 200, count |-> 0]
    /\ calls' = calls + 1
    /\ UNCHANGED <<pc, shape, parseVars, inputVars, buildVars, history, callVars>>

\* ingest_curls with the save of line 22 ahead of the check of lines 17-19
IngestSavingFirst(p, body) ==
    /\ calls < MaxCalls
    /\ calls' = calls + 1
    /\ LET saved(batch) ==
               /\ store' = save_docs_inputs(store, p, batch)
               /\ response' = [call |-> "ingest", project_id |-> p,
                               status |-> IF store[p].exists THEN 200 ELSE 404,
                               count |-> IF store[p].exists THEN Len(batch) ELSE 0]
               /\ history' = IF store[p].exists THEN [history EXCEPT ![p] = << body >>]
                             ELSE history
       IN  saved(parse_curl_inputs(body))
    /\ UNCHANGED <<pc, shape, parseVars, inputVars, buildVars, callVars>>

\* routers/docs.py ingest_curls
Ingest(p, body) ==
    /\ calls < MaxCalls
    /\ calls' = calls + 1
    /\ IF ~store[p].exists
       THEN /\ response' = [call |-> "ingest", project_id |-> p, status |-> 404, count |-> 0]
            /\ UNCHANGED <<store, history>>
       ELSE LET saved(batch) ==
                    /\ store' = save_docs_inputs(store, p, batch)
                    /\ response' = [call |-> "ingest", project_id |-> p, status |-> 200,
                                    count |-> Len(batch)]
                    /\ history' = [history EXCEPT ![p] = << body >>]
            IN  saved(parse_curl_inputs(body))
    /\ UNCHANGED <<pc, shape, parseVars, inputVars, buildVars, callVars>>

\* routers/docs.py generate_docs; status 500 is the TypeError of json.dumps
\* leaving the handler
Generate(p, opts) ==
    /\ calls < MaxCalls
    /\ calls' = calls + 1
    /\ IF ~store[p].exists
       THEN /\ response' = [call |-> "generate", project_id |-> p, status |-> 404, count |-> 0]
            /\ UNCHANGED store
       ELSE IF store[p].inputs = <<>>
       THEN /\ response' = [call |-> "generate", project_id |-> p, status |-> 400, count |-> 0]
            /\ UNCHANGED store
       ELSE LET name == IF opts.project_name.some /\ opts.project_name.v # <<>>
                        THEN opts.project_name.v
                        ELSE IF store[p].project_name # <<>> THEN store[p].project_name
                        ELSE p
                saved(openapi_doc, md) ==
                    IF md.ok
                    THEN /\ store' = [store EXCEPT
                                         ![p].openapi = << saved_document(openapi_doc) >>,
                                         ![p].markdown = << md.text >>]
                         /\ response' = [call |-> "generate", project_id |-> p,
                                         status |-> 200, count |-> Len(openapi_doc.paths)]
                    ELSE /\ response' = [call |-> "generate", project_id |-> p,
                                         status |-> 500, count |-> 0]
                         /\ UNCHANGED store
                rendered(openapi_doc) ==
                    saved(openapi_doc, render_markdown_from_openapi(openapi_doc))
            IN  rendered(build_openapi_from_requests(name, opts.base_url,
                                                     store[p].inputs[1], opts.ai_enabled))
    /\ UNCHANGED <<pc, shape, parseVars, inputVars, buildVars, history, callVars>>

Next ==
    \/ \E p \in ProjectIds, name \in UploadNames : Upload(p, name)
    \/ \E p \in ProjectIds, body \in IngestPayloads : Ingest(p, body)
    \/ \E p \in ProjectIds, opts \in GenerateOptions : Generate(p, opts)

Spec == InitService /\ [][Next]_vars

-----------------------------------------------------------------------------
(* Properties of the endpoints                                             *)

\* C3: an ingest for an unknown project id fails with NotFound (404); an
\* ingest for a known project either fails with BadInput (400), which it
\* does when no request was parsed, or succeeds with at least one request.
C3_IngestErrors ==
    response.call = "ingest" =>
        IF ~store[response.project_id].exists THEN response.status = 404
        ELSE \/ response.status = 400
             \/ response.status = 200 /\ response.count > 0

\* C4: a generate for an unknown project id fails with NotFound (404), one
\* for a known project without a persisted batch fails with BadInput (400),
\* and every other generate succeeds and leaves both the OpenAPI document
\* and its Markdown persisted.
C4_GenerateErrors ==
    response.call = "generate" =>
        LET p == response.project_id
        IN  IF ~store[p].exists THEN response.status = 404
            ELSE IF store[p].inputs = <<>> THEN response.status = 400
            ELSE /\ response.status = 200
                 /\ store[p].openapi # <<>>
                 /\ store[p].markdown # <<>>

\* C5: for every project the persisted batch is exactly the batch parsed
\* from the payload of its most recent ingest that returned ok (no batch when
\* there was none), and an ingest leaves the batch of every other project as
\* it was.
C5_BatchOverwritten ==
    /\ [](\A p \in ProjectIds :
             store[p].inputs = IF history[p] = <<>> THEN <<>>
                               ELSE << parse_curl_inputs(history[p][1]) >>)
    /\ [][\A p \in ProjectIds :
             (response'.call = "ingest" /\ response'.project_id # p)
                 => store'[p].inputs = store[p].inputs]_vars

\* an ingest of one command has replaced a batch of two, from which a
\* document with two paths had been generated
C5_Witness ==
    \E p \in ProjectIds :
        /\ response.call = "ingest" /\ response.project_id = p /\ response.status = 200
        /\ history[p] = << Pay_plain >>
        /\ Len(store[p].inputs[1]) = 1
        /\ store[p].openapi # <<>>
        /\ Len(store[p].openapi[1].paths) = 2

-----------------------------------------------------------------------------
(* Operation ids                                                           *)

HasDoubleUnderscore(s) == \E i \in 1..(Len(s) - 1) : s[i] = "_" /\ s[i + 1] = "_"

\* C11: every operationId stored in the document is made of letters, digits
\* and underscores only, neither starts nor ends with an underscore, and
\* never holds two underscores in a row.
C11_OperationIdCollapsed ==
    pc = "built"
    => \A op \in AllOps(doc) :
          /\ \A i \in 1..Len(op.operationId) :
                 IsAlnum(op.operationId[i]) \/ op.operationId[i] = "_"
          /\ op.operationId # <<>> => /\ op.operationId[1] # "_"
                                      /\ op.operationId[Len(op.operationId)] # "_"
          /\ ~HasDoubleUnderscore(op.operationId)

-----------------------------------------------------------------------------
(* Base URL resolution                                                     *)

\* the ends of the text "scheme://host" at the start of url: after http:// or
\* https:// at least one character other than "/", up to the next "/" or the
\* end of the url
SchemeHostEnds(url) ==
    {e \in 1..Len(url) :
        /\ \E p \in {Len(HttpPrefix), Len(HttpsPrefix)} :
              /\ e > p
              /\ p <= Len(url)
              /\ SubSeq(url, 1, p) \in {HttpPrefix, HttpsPrefix}
              /\ \A k \in (p + 1)..e : url[k] # "/"
        /\ e = Len(url) \/ url[e + 1] = "/"}

StartsWithScheme(url) == startswith(url, HttpPrefix) \/ startswith(url, HttpsPrefix)

\* the text of url before the first "/" that follows the scheme
BeforePathSlash(url) ==
    LET p == IF startswith(url, HttpPrefix) THEN Len(HttpPrefix) ELSE Len(HttpsPrefix)
        stops == {k \in (p + 1)..Len(url) : url[k] = "/"}
    IN  IF stops = {} THEN url
        ELSE SubSeq(url, 1, (CHOOSE k \in stops : \A j \in stops : k <= j) - 1)

WithoutTrailingSlashes(s) ==
    LET keep == {n \in 0..Len(s) : (n = 0 \/ s[n] # "/") /\ \A k \in (n + 1)..Len(s) : s[k] = "/"}
    IN  SubSeq(s, 1, CHOOSE n \in keep : TRUE)

\* C12 as stated: a given hint always yields one server, the hint without its
\* trailing slashes; without a hint the server is the scheme://host prefix of
\* the first request whose URL starts with http:// or https://; servers is
\* empty when there is no hint and no such request.
C12_ServersAsStated ==
    pc = "built"
    => LET hint == build.base_url_hint
           reqs == build.requests_payload
           abs  == {i \in 1..Len(reqs) : StartsWithScheme(reqs[i].url)}
       IN  IF hint.some THEN doc.servers = << WithoutTrailingSlashes(hint.v) >>
           ELSE IF abs = {} THEN doc.servers = <<>>
           ELSE doc.servers =
                   << BeforePathSlash(reqs[CHOOSE i \in abs : \A j \in abs : i <= j].url) >>

\* C12, amended: a hint that is a non-empty string yields the hint without
\* its trailing slashes as the only server, and no server when nothing is
\* left of it; with no hint or an empty one the server is the scheme://host
\* text of the first request, in batch order, whose URL has a non-empty host
\* after http:// or https://; servers is empty when there is no such request.
C12_Servers ==
    pc = "built"
    => LET hint == build.base_url_hint
           reqs == build.requests_payload
           hits == {i \in 1..Len(reqs) : SchemeHostEnds(reqs[i].url) # {}}
           first == CHOOSE i \in hits : \A j \in hits : i <= j
       IN  IF hint.some /\ hint.v # <<>>
           THEN doc.servers = (IF WithoutTrailingSlashes(hint.v) = <<>> THEN <<>>
                               ELSE << WithoutTrailingSlashes(hint.v) >>)
           ELSE IF hits = {} THEN doc.servers = <<>>
           ELSE \E e \in SchemeHostEnds(reqs[first].url) :
                   doc.servers = << SubSeq(reqs[first].url, 1, e) >>

\* a batch whose first URL has no host and whose second has one, built with
\* an empty hint: the server comes from the second request
C12_Witness ==
    /\ pc = "built"
    /\ build.base_url_hint = Some(<<>>)
    /\ Len(build.requests_payload) = 2
    /\ StartsWithScheme(build.requests_payload[1].url)
    /\ SchemeHostEnds(build.requests_payload[1].url) = {}
    /\ SchemeHostEnds(build.requests_payload[2].url) # {}
    /\ doc.servers = << <<"h", "t", "t", "p", ":", "/", "/", "h">> >>

-----------------------------------------------------------------------------
(* The parsing functions on malformed text                                 *)

\* longest fragment list of a malformed text
MaxFragments == 3

F_d == <<"-", "d">>
F_X == <<"-", "X">>
F_H == <<"-", "H">>
\* 'a
F_open_single == <<"'", "a">>
\* "b
F_open_double == <<"\"", "b">>
\* x\
F_backslash == <<"x", "\\">>
\* {a
F_brace == <<"{", "a">>
\* {"a":
F_truncated == <<"{", "\"", "a", "\"", ":">>

\* flags without values, unbalanced quotes, an undecodable escape, and
\* unparseable JSON
Fragments ==
    {F_d, F_X, F_H, F_open_single, F_open_double, F_backslash, F_brace, F_truncated}

MalformedTexts == UNION {{JoinWords(fs) : fs \in [1..n -> Fragments]} : n \in 0..MaxFragments}

MalformedShape(fn, t) == [kind |-> "malformed", fn |-> fn, text |-> t]

\* one call of parse_curl, of parse_curl_inputs or of _coerce_json on a
\* malformed text; parse_curl_inputs gets it as the text blob or as the only
\* list item, as written or behind "curl "
InitMalformed ==
    /\ tokens = <<>>
    /\ parsed = NoRequest
    /\ curls = <<>>
    /\ requests = <<>>
    /\ leftovers = <<>>
    /\ fallback = FALSE
    /\ BuildIdle
    /\ ServiceIdle
    /\ result = <<>>
    /\ \E t \in MalformedTexts :
          \/ /\ pc = "parse_curl"
             /\ cmd \in {t, CurlPrefix \o t}
             /\ shape = MalformedShape("parse_curl", cmd)
             /\ payload = NoPayload
             /\ arg = <<>>
          \/ /\ pc = "parse_curl_inputs"
             /\ cmd = <<>>
             /\ \E c \in {t, CurlPrefix \o t} :
                   /\ payload \in {[curls_text |-> c, curls |-> <<>>],
                                   [curls_text |-> <<>>, curls |-> << c >>]}
                   /\ shape = MalformedShape("parse_curl_inputs", c)
             /\ arg = <<>>
          \/ /\ pc = "_coerce_json"
             /\ cmd = <<>>
             /\ payload = NoPayload
             /\ arg = t
             /\ shape = MalformedShape("_coerce_json", t)

\* docs_service.py lines 60-97
Coerce ==
    /\ pc = "_coerce_json"
    /\ result' = << _coerce_json(arg) >>
    /\ pc' = "coerced"
    /\ UNCHANGED <<shape, arg, parseVars, inputVars, buildVars, serviceVars>>

NextMalformed == NextParse \/ NextInputs \/ Coerce

SpecMalformed == InitMalformed /\ [][NextMalformed]_vars

\* what parse_curl promises: a non-empty method, a non-empty url, headers as
\* pairs of strings and a body that is absent or a string
IsRequest(r) ==
    /\ r.method # <<>> /\ r.method # Traceback
    /\ r.url # <<>> /\ r.url # Traceback
    /\ \A i \in 1..Len(r.headers) :
          Len(r.headers[i]) = 2 /\ Traceback \notin {r.headers[i][1], r.headers[i][2]}
    /\ r.body.some => r.body.v # Traceback

\* the data value the command carries, as written between its quotes
WrittenData(toks) ==
    LET at == {i \in 1..(Len(toks) - 1) : toks[i] \in DataFlags}
    IN  IF at = {} THEN None
        ELSE Some(strip_chars(strip(toks[(CHOOSE i \in at : \A j \in at : i <= j) + 1]),
                              QuoteChars))

\* C13: on every malformed text each parsing function returns a value:
\* _shell_split a list of non-empty tokens, parse_curl a request whose body,
\* when the escapes of the data value cannot be decoded, is that value as
\* written, _coerce_json a parsed value or the text it was given, and
\* parse_curl_inputs a list of such requests.
C13_Total ==
    /\ pc = "tokenized" => \A i \in 1..Len(tokens) : tokens[i] # <<>>
    /\ pc = "parsed"
       => /\ IsRequest(parsed)
          /\ parsed.body.some = WrittenData(tokens).some
          /\ (parsed.body.some /\ ~unicode_escape(WrittenData(tokens).v).ok)
             => parsed.body = WrittenData(tokens)
    /\ pc \in {"partitioned", "inputs_done"}
       => \A i \in 1..Len(requests) : IsRequest(requests[i])
    /\ pc = "coerced"
       => /\ Len(result) = 1
          /\ result[1].t \in {"dict", "list", "tuple", "set", "str", "int", "bool", "null"}
          /\ result[1].t = "str" => result[1] = Val("str", arg, <<>>)

\* parse_curl has returned for a command whose data value ends in a lone
\* backslash, which unicode_escape cannot decode
C13_Witness ==
    /\ pc = "parsed"
    /\ shape.kind = "malformed"
    /\ parsed.body = Some(F_backslash)
    /\ ~unicode_escape(F_backslash).ok

-----------------------------------------------------------------------------
(* docs_service.py: generate_pdf, and the PDF branch of export_docs        *)
(*                                                                         *)
(* The Markdown text is its list of lines (markdown_text.split('\n')).     *)
(* The layout library is outside the repository: its Paragraph constructor *)
(* parses inline markup and raises on markup it cannot parse (here: a <b>  *)
(* that is never closed); whether doc.build and the canvas writer fail is  *)
(* a choice of the environment.                                            *)

Fence == <<"U+0060", "U+0060", "U+0060">>
Bold == <<"<", "b", ">">>
BoldEnd == <<"<", "/", "b", ">">>

\* Paragraph(text, style) raises
paragraph_raises(text) ==
    /\ \E i \in 1..Len(text) : HasAt(text, i, Bold)
    /\ ~\E i \in 1..Len(text) : HasAt(text, i, BoldEnd)

\* the first index from i on whose line satisfies Stop, Len(lines) + 1 if none
first_from(lines, i, Stop(_)) ==
    LET hits == {j \in i..Len(lines) : Stop(lines[j])}
    IN  IF hits = {} THEN Len(lines) + 1 ELSE CHOOSE j \in hits : \A k \in hits : j <= k

\* lines 932-938: the rows of a table block without its separator rows
table_rows(tbl_lines) ==
    LET cells(tl) ==
            LET parts == split(strip_chars(strip(tl), {"|"}), "|")
            IN  [k \in 1..Len(parts) |-> strip(parts[k])]
        separator(row) ==
            \A k \in 1..Len(row) :
                row[k] # <<>> /\ \A n \in 1..Len(row[k]) : row[k][n] \in {"-", ":", " "}
        rows == [k \in 1..Len(tbl_lines) |-> cells(tbl_lines[k])]
    IN  SelectSeq(rows, LAMBDA row : ~separator(row))

PdfElement(kind, text, rows) == [kind |-> kind, text |-> text, rows |-> rows]

BulletJoin == <<"<", "b", "r", "/", ">", "U+2022", " ">>

\* lines 904-1007: the elements built for the lines from i on, appended to
\* elements; raised when a constructor of the layout library raised
RECURSIVE pdf_elements(_, _, _)
pdf_elements(lines, i, elements) ==
    IF i > Len(lines) THEN [raised |-> FALSE, elements |-> elements]
    ELSE LET line == lines[i]
             is_fence(l) == startswith(strip(l), Fence)
             not_table(l) == ~startswith(strip(l), <<"|">>)
             not_bullet(l) == ~startswith(strip(l), <<"-", " ">>)
             paragraph(kind, text, next) ==
                 IF paragraph_raises(text)
                 THEN [raised |-> TRUE, elements |-> elements]
                 ELSE pdf_elements(lines, next, Append(elements, PdfElement(kind, text, <<>>)))
         IN  IF strip(line) = <<>> THEN pdf_elements(lines, i + 1, elements)
             ELSE IF is_fence(line)
             THEN LET j == first_from(lines, i + 1, is_fence)
                  IN  pdf_elements(lines, j + 1,
                          Append(elements,
                                 PdfElement("Preformatted",
                                            JoinWith(SubSeq(lines, i + 1, j - 1), <<"\n">>), <<>>)))
             ELSE IF ~not_table(line)
             THEN LET j == first_from(lines, i + 1, not_table)
                      rows == table_rows(SubSeq(lines, i, j - 1))
                  IN  IF rows = <<>> THEN pdf_elements(lines, j, elements)
                      ELSE IF \E r \in 1..Len(rows) : \E k \in 1..Len(rows[r]) :
                                  paragraph_raises(rows[r][k])
                      THEN [raised |-> TRUE, elements |-> elements]
                      ELSE pdf_elements(lines, j,
                              elements \o << PdfElement("Table", <<>>, rows),
                                             PdfElement("Spacer", <<>>, <<>>) >>)
             ELSE IF startswith(line, <<"#", " ">>)
             THEN paragraph("H1", strip(SubSeq(line, 3, Len(line))), i + 1)
             ELSE IF startswith(line, <<"#", "#", " ">>)
             THEN paragraph("H2", strip(SubSeq(line, 4, Len(line))), i + 1)
             ELSE IF startswith(line, <<"#", "#", "#", " ">>)
             THEN paragraph("H3", strip(SubSeq(line, 5, Len(line))), i + 1)
             ELSE IF ~not_bullet(line)
             THEN LET j == first_from(lines, i + 1, not_bullet)
                      items == [k \in 1..(j - i) |->
                                   SubSeq(strip(lines[i + k - 1]), 3, Len(strip(lines[i + k - 1])))]
                  IN  paragraph("Body", <<"U+2022", " ">> \o JoinWith(items, BulletJoin), j)
             ELSE paragraph("Body", strip(line), i + 1)

\* longest Markdown text, in lines
MaxLines == 3

\* # T
L_h1 == <<"#", " ", "T">>
\* ## <b>T
L_h2_bad == <<"#", "#", " ", "<", "b", ">", "T">>
\* x
L_text == <<"x">>
\* <b>x
L_text_bad == <<"<", "b", ">", "x">>
\* - <b>i</b>
L_bullet == <<"-", " ", "<", "b", ">", "i", "<", "/", "b", ">">>
\* - <b>i
L_bullet_bad == <<"-", " ", "<", "b", ">", "i">>
L_fence == Fence
\* | a | b |
L_row == <<"|", " ", "a", " ", "|", " ", "b", " ", "|">>
\* |---|---|
L_rule == <<"|", "-", "-", "-", "|", "-", "-", "-", "|">>
\* | <b>a | c |
L_row_bad == <<"|", " ", "<", "b", ">", "a", " ", "|", " ", "c", " ", "|">>

MarkdownLines ==
    {<<>>, L_h1, L_h2_bad, L_text, L_text_bad, L_bullet, L_bullet_bad, L_fence,
     L_row, L_rule, L_row_bad}

\* the locals of one export: the elements, which step failed, the file
\* generate_pdf returned and the status of the response
NoExport ==
    [elements |-> <<>>, element_failed |-> FALSE, build_failed |-> FALSE,
     fallback_failed |-> FALSE, path |-> "none", status |-> 0]

InitPdf ==
    /\ pc = "generate_pdf"
    /\ shape = <<>>
    /\ ParseIdle
    /\ InputsIdle
    /\ BuildIdle
    /\ ServiceIdle
    /\ result = << NoExport >>
    /\ \E n \in 0..MaxLines : arg \in [1..n -> MarkdownLines]

\* docs_service.py lines 900-1007; an exception here leaves generate_pdf
PdfLayout ==
    /\ pc = "generate_pdf"
    /\ LET built(r) ==
               /\ result' = << [result[1] EXCEPT !.elements = r.elements,
                                                 !.element_failed = r.raised] >>
               /\ pc' = IF r.raised THEN "pdf_raised" ELSE "pdf_build"
       IN  built(pdf_elements(arg, 1, <<>>))
    /\ UNCHANGED <<shape, arg, parseVars, inputVars, buildVars, serviceVars>>

\* docs_service.py lines 1009-1012: doc.build(elements) returns or raises
PdfBuild ==
    /\ pc = "pdf_build"
    /\ \/ /\ result' = << [result[1] EXCEPT !.path = "styled"] >>
          /\ pc' = "pdf_returned"
       \/ /\ result' = << [result[1] EXCEPT !.build_failed = TRUE] >>
          /\ pc' = "pdf_fallback"
    /\ UNCHANGED <<shape, arg, parseVars, inputVars, buildVars, serviceVars>>

\* docs_service.py lines 1013-1034: the canvas writer returns or raises
PdfFallback ==
    /\ pc = "pdf_fallback"
    /\ \/ /\ result' = << [result[1] EXCEPT !.path = "plain"] >>
          /\ pc' = "pdf_returned"
       \/ /\ result' = << [result[1] EXCEPT !.fallback_failed = TRUE] >>
          /\ pc' = "pdf_raised"
    /\ UNCHANGED <<shape, arg, parseVars, inputVars, buildVars, serviceVars>>

\* routers/docs.py lines 123-129
ExportPdf ==
    /\ pc \in {"pdf_returned", "pdf_raised"}
    /\ result' = << [result[1] EXCEPT !.status = IF pc = "pdf_raised" THEN 500 ELSE 200] >>
    /\ pc' = "exported"
    /\ UNCHANGED <<shape, arg, parseVars, inputVars, buildVars, serviceVars>>

NextPdf == PdfLayout \/ PdfBuild \/ PdfFallback \/ ExportPdf

SpecPdf == InitPdf /\ [][NextPdf]_vars

\* C14: whenever a step of the styled layout failed, building an element or
\* building the document, and the plain writer did not fail, the export
\* answers 200 with the file of the plain writer; the export answers 500
\* only when the plain writer itself failed.
C14_PdfSelfHeals ==
    pc = "exported"
    => /\ ((result[1].element_failed \/ result[1].build_failed)
           /\ ~result[1].fallback_failed)
          => result[1].status = 200 /\ result[1].path = "plain"
       /\ result[1].status = 500 => result[1].fallback_failed

-----------------------------------------------------------------------------
(* json.dumps followed by _coerce_json                                     *)

\* most elements of a generated list, tuple or dict
MaxElems == 2

StrVal(s) == Val("str", s, <<>>)
IntVal(s) == Val("int", s, <<>>)

\* "a", "1", a text with a quote, a newline and a non-ASCII character,
\* 1, -7, true, null
ScalarValues ==
    {StrVal(<<"a">>), StrVal(<<"1">>), StrVal(<<"\"", "\n", "U+00E9">>), IntVal(<<"1">>),
     IntVal(<<"-", "7">>), Val("bool", W_true, <<>>), NullVal}

SeqValues(t, elems) == UNION {{Val(t, <<>>, es) : es \in [1..n -> elems]} : n \in 0..MaxElems}

\* dicts of up to MaxElems entries with distinct keys
DictValues(keys, vals) ==
    UNION {{Val("dict", <<>>, [i \in 1..n |-> Pair(ks[i], vs[i])]) :
               <<ks, vs>> \in {kv \in [1..n -> keys] \X [1..n -> vals] :
                                  \A i, j \in 1..n : i # j => kv[1][i] # kv[1][j]}} :
           n \in 0..MaxElems}

NestedValues ==
    {Val("list", <<>>, << Val("dict", <<>>, << Pair(StrVal(<<"k">>), Val("list", <<>>, << IntVal(<<"2">>) >>)) >>) >>),
     Val("dict", <<>>, << Pair(StrVal(<<"k">>), Val("tuple", <<>>, << IntVal(<<"2">>) >>)) >>),
     Val("dict", <<>>, << Pair(StrVal(<<"k">>), Val("dict", <<>>, << Pair(IntVal(<<"2">>), NullVal) >>)) >>)}

\* the values given to json.dumps: all of them serializable
DumpedValues ==
    ScalarValues \cup SeqValues("list", ScalarValues) \cup SeqValues("tuple", ScalarValues)
    \cup DictValues({StrVal(<<"a">>), StrVal(<<"b">>), IntVal(<<"1">>), NullVal},
                    {StrVal(<<"a">>), IntVal(<<"1">>), NullVal})
    \cup NestedValues

\* texts none of the attempts of _coerce_json can parse
T_padded == <<" ", "{", "a", " ">>
T_hello == <<"h", "e", "l", "l", "o", "\n">>
UnparsedTexts == {T_padded, T_hello, F_brace, F_truncated, F_open_single, <<>>}

InitCoerce ==
    /\ ParseIdle
    /\ InputsIdle
    /\ BuildIdle
    /\ ServiceIdle
    /\ result = <<>>
    /\ \/ /\ pc = "json.dumps"
          /\ arg = <<>>
          /\ \E x \in DumpedValues : shape = [kind |-> "value", x |-> x]
       \/ /\ pc = "_coerce_json"
          /\ arg \in UnparsedTexts
          /\ shape = [kind |-> "text", x |-> NullVal]

\* json.dumps(x), the argument of the round trip
Dumps ==
    /\ pc = "json.dumps"
    /\ arg' = json_dumps(shape.x)
    /\ pc' = "_coerce_json"
    /\ UNCHANGED <<shape, result, parseVars, inputVars, buildVars, serviceVars>>

NextCoerce == Dumps \/ Coerce

SpecCoerce == InitCoerce /\ [][NextCoerce]_vars

\* what a JSON text can denote: null, booleans, integers, strings, lists,
\* and dicts whose keys are strings
RECURSIVE JsonShaped(_)
JsonShaped(v) ==
    CASE v.t \in {"set", "tuple"} -> FALSE
      [] v.t = "list" -> \A i \in 1..Len(v.items) : JsonShaped(v.items[i])
      [] v.t = "dict" -> \A i \in 1..Len(v.items) :
                             /\ v.items[i].items[1].t = "str"
                             /\ JsonShaped(v.items[i].items[2])
      [] OTHER -> TRUE

NothingParses(text) ==
    /\ ~json_loads(strip(text)).ok
    /\ \A i \in 1..Len(coerce_candidates(strip(text))) :
           ~json_loads(coerce_candidates(strip(text))[i]).ok
    /\ ~literal_eval(strip(text)).ok

\* C15 as stated: _coerce_json(json.dumps(x)) is x for every value x that
\* json.dumps accepts.
C15_RoundTripAsStated ==
    (pc = "coerced" /\ shape.kind = "value") => result[1] = shape.x

\* C15, amended: _coerce_json(json.dumps(x)) is x for every x made of null,
\* booleans, integers, strings, lists and dicts with string keys; and
\* _coerce_json returns its argument, surrounding whitespace included, when
\* no attempt parses it.
C15_RoundTrip ==
    /\ (pc = "coerced" /\ shape.kind = "value" /\ JsonShaped(shape.x))
       => result[1] = shape.x
    /\ (pc = "coerced" /\ NothingParses(arg)) => result[1] = StrVal(arg)

\* the round trip of a dict holding a text with a quote, a newline and a
\* non-ASCII character has ended
C15_Witness ==
    /\ pc = "coerced"
    /\ shape.kind = "value"
    /\ shape.x.t = "dict"
    /\ Len(shape.x.items) = MaxElems
    /\ JsonShaped(shape.x)
    /\ result[1] = shape.x

-----------------------------------------------------------------------------
(* docs_service.py: the sheet and vendor styles of the renderer            *)

contains(s, w) == \E i \in 1..(Len(s) + 1) : HasAt(s, i, w)
endswith(s, w) == Len(s) >= Len(w) /\ SubSeq(s, Len(s) - Len(w) + 1, Len(s)) = w

\* the characters of the response codes and descriptions of the synthesizer
chars_of(s) ==
    CASE s = "200" -> <<"2", "0", "0">>
      [] s = "400" -> <<"4", "0", "0">>
      [] s = "401" -> <<"4", "0", "1">>
      [] s = "403" -> <<"4", "0", "3">>
      [] s = "404" -> <<"4", "0", "4">>
      [] s = "429" -> <<"4", "2", "9">>
      [] s = "500" -> <<"5", "0", "0">>
      [] s = "OK" -> <<"O", "K">>
      [] s = "Bad Request" -> <<"B", "a", "d", " ", "R", "e", "q", "u", "e", "s", "t">>
      [] s = "Unauthorized" -> <<"U", "n", "a", "u", "t", "h", "o", "r", "i", "z", "e", "d">>
      [] s = "Forbidden" -> <<"F", "o", "r", "b", "i", "d", "d", "e", "n">>
      [] s = "Not Found" -> <<"N", "o", "t", " ", "F", "o", "u", "n", "d">>
      [] s = "Too Many Requests" -> <<"T", "o", "o", " ", "M", "a", "n", "y", " ", "R", "e",
            "q", "u", "e", "s", "t", "s">>
      [] OTHER -> <<"I", "n", "t", "e", "r", "n", "a", "l", " ", "S", "e", "r", "v", "e",
            "r", " ", "E", "r", "r", "o", "r">>

\* lines 443-457 and 709-727
RECURSIVE _infer_type(_)
_infer_type(value) ==
    CASE value.t = "null" -> <<"S", "t", "r", "i", "n", "g">>
      [] value.t = "bool" -> <<"B", "o", "o", "l", "e", "a", "n">>
      [] value.t = "int" -> <<"N", "u", "m", "b", "e", "r">>
      [] value.t = "str" -> <<"S", "t", "r", "i", "n", "g">>
      [] value.t = "list" ->
            <<"A", "r", "r", "a", "y", "<">> \o (IF value.items = <<>> THEN <<"A", "n",
                  "y">> ELSE _infer_type(value.items[1])) \o <<">">>
      [] value.t = "dict" -> <<"O", "b", "j", "e", "c", "t">>
      [] OTHER -> <<"S", "t", "r", "i", "n", "g">>

\* domain_map of lines 462-484
SheetDomainMap ==
    << << <<"c", "o", "m", "p", "a", "n", "y", "_", "i", "d">>, <<"C", "o", "m", "p", "a",
          "n", "y", " ", "i", "d", "e", "n", "t", "i", "f", "i", "e", "r", ".">> >>,
       << <<"u", "s", "e", "r", "_", "i", "d">>, <<"U", "s", "e", "r", " ", "i", "d", "e",
             "n", "t", "i", "f", "i", "e", "r", " ", "i", "n", "i", "t", "i", "a", "t", "i",
             "n", "g", " ", "t", "h", "e", " ", "r", "e", "q", "u", "e", "s", "t", ".">> >>,
       << <<"m", "o", "d", "u", "l", "e", "_", "i", "d">>, <<"M", "o", "d", "u", "l", "e",
             " ", "i", "d", "e", "n", "t", "i", "f", "i", "e", "r", ".">> >>,
       << <<"u", "s", "e", "r", "_", "r", "o", "l", "e", "_", "i", "d">>, <<"R", "o", "l",
             "e", " ", "i", "d", "e", "n", "t", "i", "f", "i", "e", "r", " ", "f", "o", "r",
             " ", "a", "u", "t", "h", "o", "r", "i", "z", "a", "t", "i", "o", "n", " ", "d",
             "e", "c", "i", "s", "i", "o", "n", "s", ".">> >>,
       << <<"m", "o", "d", "u", "l", "e", "_", "n", "a", "m", "e">>, <<"H", "u", "m", "a",
             "n", "-", "r", "e", "a", "d", "a", "b", "l", "e", " ", "m", "o", "d", "u", "l",
             "e", " ", "n", "a", "m", "e", ".">> >>,
       << <<"p", "a", "g", "e", "_", "n", "o">>, <<"P", "a", "g", "e", " ", "n", "u", "m",
             "b", "e", "r", " ", "f", "o", "r", " ", "p", "a", "g", "i", "n", "a", "t", "i",
             "o", "n", " ", "(", "1", "-", "b", "a", "s", "e", "d", ")", ".">> >>,
       << <<"r", "e", "c", "o", "r", "d", "_", "p", "e", "r", "_", "p", "a", "g",
             "e">>, <<"N", "u", "m", "b", "e", "r", " ", "o", "f", " ", "r", "e", "c", "o",
             "r", "d", "s", " ", "p", "e", "r", " ", "p", "a", "g", "e", ".">> >>,
       << <<"f", "o", "r", "c", "e", "_", "a", "c", "t", "i", "v", "e", "_", "s", "t", "a",
             "t", "u", "s">>, <<"I", "f", " ", "'", "1", "'", ",", " ", "r", "e", "s", "t",
             "r", "i", "c", "t", " ", "r", "e", "s", "u", "l", "t", "s", " ", "t", "o", " ",
             "a", "c", "t", "i", "v", "e", " ", "e", "n", "t", "i", "t", "i", "e", "s",
             ".">> >>,
       << <<"e", "m", "p", "l", "o", "y", "e", "e", "_", "i", "d", "s">>, <<"L", "i", "s",
             "t", " ", "o", "f", " ", "e", "m", "p", "l", "o", "y", "e", "e", " ", "i", "d",
             "e", "n", "t", "i", "f", "i", "e", "r", "s", " ", "t", "o", " ", "f", "i", "l",
             "t", "e", "r", " ", "r", "e", "s", "u", "l", "t", "s", ".">> >>,
       << <<"u", "r", "l">>, <<"C", "l", "i", "e", "n", "t", " ", "p", "a", "g", "e", "/",
             "r", "o", "u", "t", "e", " ", "w", "h", "e", "r", "e", " ", "t", "h", "e", " ",
             "r", "e", "q", "u", "e", "s", "t", " ", "o", "r", "i", "g", "i", "n", "a", "t",
             "e", "d", ".">> >>,
       << <<"d", "e", "v", "i", "c", "e", "_", "i", "n", "f", "o">>, <<"I", "n", "f", "o",
             "r", "m", "a", "t", "i", "o", "n", " ", "a", "b", "o", "u", "t", " ", "c", "l",
             "i", "e", "n", "t", " ", "d", "e", "v", "i", "c", "e", " ", "a", "n", "d", " ",
             "e", "n", "v", "i", "r", "o", "n", "m", "e", "n", "t", ".">> >>,
       << <<"d", "e", "v", "i", "c", "e", "_", "t", "y", "p", "e">>, <<"T", "y", "p", "e",
             " ", "o", "f", " ", "d", "e", "v", "i", "c", "e", " ", "(", "D", "e", "s", "k",
             "t", "o", "p", "/", "M", "o", "b", "i", "l", "e", "/", "T", "a", "b", "l", "e",
             "t", ")", ".">> >>,
       << <<"i", "s", "_", "m", "o", "b", "i", "l", "e">>, <<"F", "l", "a", "g", " ", "i",
             "n", "d", "i", "c", "a", "t", "i", "n", "g", " ", "m", "o", "b", "i", "l", "e",
             " ", "d", "e", "v", "i", "c", "e", " ", "(", "0", "/", "1", ")", ".">> >>,
       << <<"i", "s", "_", "t", "a", "b", "l", "e", "t">>, <<"F", "l", "a", "g", " ", "i",
             "n", "d", "i", "c", "a", "t", "i", "n", "g", " ", "t", "a", "b", "l", "e", "t",
             " ", "d", "e", "v", "i", "c", "e", " ", "(", "0", "/", "1", ")", ".">> >>,
       << <<"i", "s", "_", "d", "e", "s", "k", "t", "o", "p">>, <<"F", "l", "a", "g", " ",
             "i", "n", "d", "i", "c", "a", "t", "i", "n", "g", " ", "d", "e", "s", "k", "t",
             "o", "p", " ", "d", "e", "v", "i", "c", "e", " ", "(", "0", "/", "1", ")",
             ".">> >>,
       << <<"b", "r", "o", "w", "s", "e", "r">>, <<"C", "l", "i", "e", "n", "t", " ", "b",
             "r", "o", "w", "s", "e", "r", " ", "n", "a", "m", "e", ".">> >>,
       << <<"o", "s">>, <<"O", "p", "e", "r", "a", "t", "i", "n", "g", " ", "s", "y", "s",
             "t", "e", "m", " ", "n", "a", "m", "e", ".">> >>,
       << <<"o", "s", "_", "v", "e", "r", "s", "i", "o", "n">>, <<"O", "p", "e", "r", "a",
             "t", "i", "n", "g", " ", "s", "y", "s", "t", "e", "m", " ", "v", "e", "r", "s",
             "i", "o", "n", ".">> >>,
       << <<"u", "s", "e", "r", "_", "a", "g", "e", "n", "t">>, <<"R", "a", "w", " ", "u",
             "s", "e", "r", "-", "a", "g", "e", "n", "t", " ", "s", "t", "r", "i", "n", "g",
             ".">> >>,
       << <<"i", "p", "_", "a", "d", "d", "r", "e", "s", "s">>, <<"C", "l", "i", "e", "n",
             "t", " ", "I", "P", " ", "a", "d", "d", "r", "e", "s", "s", ".">> >>,
       << <<"i", "s", "_", "v", "e", "n", "d", "o", "r">>, <<"F", "l", "a", "g", " ", "i",
             "n", "d", "i", "c", "a", "t", "i", "n", "g", " ", "v", "e", "n", "d", "o", "r",
             " ", "c", "o", "n", "t", "e", "x", "t", " ", "(", "0", "/", "1", ")",
             ".">> >> >>

\* domain_map of lines 732-789
VendorDomainMap ==
    << << <<"c", "o", "m", "p", "a", "n", "y", "_", "i", "d">>, <<"I", "D", " ", "o", "f",
          " ", "t", "h", "e", " ", "c", "o", "m", "p", "a", "n", "y", ".">> >>,
       << <<"u", "s", "e", "r", "_", "i", "d">>, <<"U", "s", "e", "r", " ", "I", "D", " ",
             "m", "a", "k", "i", "n", "g", " ", "t", "h", "e", " ", "r", "e", "q", "u", "e",
             "s", "t", ".">> >>,
       << <<"u", "s", "e", "r", "_", "r", "o", "l", "e", "_", "i", "d">>, <<"R", "o", "l",
             "e", " ", "I", "D", " ", "o", "f", " ", "t", "h", "e", " ", "l", "o", "g", "g",
             "e", "d", "-", "i", "n", " ", "u", "s", "e", "r", ".">> >>,
       << <<"p", "a", "g", "e", "_", "n", "o">>, <<"P", "a", "g", "e", " ", "n", "u", "m",
             "b", "e", "r", " ", "f", "o", "r", " ", "p", "a", "g", "i", "n", "a", "t", "i",
             "o", "n", ".">> >>,
       << <<"r", "e", "c", "o", "r", "d", "_", "p", "e", "r", "_", "p", "a", "g",
             "e">>, <<"N", "u", "m", "b", "e", "r", " ", "o", "f", " ", "r", "e", "c", "o",
             "r", "d", "s", " ", "p", "e", "r", " ", "p", "a", "g", "e", ".">> >>,
       << <<"f", "o", "r", "c", "e", "_", "a", "c", "t", "i", "v", "e", "_", "s", "t", "a",
             "t", "u", "s">>, <<"F", "i", "l", "t", "e", "r", " ", "f", "o", "r", " ", "a",
             "c", "t", "i", "v", "e", " ", "s", "t", "a", "t", "u", "s", " ", "(", "1", " ",
             "=", " ", "a", "c", "t", "i", "v", "e", " ", "o", "n", "l", "y", ")", ".">> >>,
       << <<"e", "m", "p", "l", "o", "y", "e", "e", "_", "i", "d", "s">>, <<"L", "i", "s",
             "t", " ", "o", "f", " ", "e", "m", "p", "l", "o", "y", "e", "e", " ", "I", "D",
             "s", " ", "t", "o", " ", "f", "i", "l", "t", "e", "r", ".">> >>,
       << <<"u", "r", "l">>, <<"M", "o", "d", "u", "l", "e", "/", "s", "e", "c", "t", "i",
             "o", "n", " ", "r", "e", "f", "e", "r", "e", "n", "c", "e", " ", "U", "R", "L",
             ".">> >>,
       << <<"i", "s", "_", "v", "e", "n", "d", "o", "r">>, <<"0", " ", "=", " ", "e", "m",
             "p", "l", "o", "y", "e", "e", ",", " ", "1", " ", "=", " ", "v", "e", "n", "d",
             "o", "r", ".">> >>,
       << <<"m", "o", "d", "u", "l", "e", "_", "n", "a", "m", "e">>, <<"N", "a", "m", "e",
             " ", "o", "f", " ", "t", "h", "e", " ", "m", "o", "d", "u", "l", "e", " ", "a",
             "c", "c", "e", "s", "s", "i", "n", "g", " ", "A", "P", "I", ".">> >>,
       << <<"m", "o", "d", "u", "l", "e", "_", "i", "d">>, <<"I", "D", " ", "o", "f", " ",
             "t", "h", "e", " ", "m", "o", "d", "u", "l", "e", ".">> >>,
       << <<"p", "r", "_", "n", "o">>, <<"P", "u", "r", "c", "h", "a", "s", "e", " ", "R",
             "e", "q", "u", "e", "s", "t", " ", "n", "u", "m", "b", "e", "r", "s", " ", "f",
             "i", "l", "t", "e", "r", ".">> >>,
       << <<"p", "o", "_", "n", "o">>, <<"P", "u", "r", "c", "h", "a", "s", "e", " ", "O",
             "r", "d", "e", "r", " ", "n", "u", "m", "b", "e", "r", "s", " ", "f", "i", "l",
             "t", "e", "r", ".">> >>,
       << <<"i", "r", "n", "_", "n", "o">>, <<"I", "R", "N", " ", "n", "u", "m", "b", "e",
             "r", "s", " ", "f", "i", "l", "t", "e", "r", ".">> >>,
       << <<"v", "e", "n", "d", "o", "r", "_", "i", "d">>, <<"V", "e", "n", "d", "o", "r",
             " ", "i", "d", "e", "n", "t", "i", "f", "i", "e", "r", "s", " ", "f", "i", "l",
             "t", "e", "r", ".">> >>,
       << <<"v", "e", "n", "d", "o", "r", "_", "i", "n", "v", "o", "i", "c", "e", "_", "n",
             "o">>, <<"V", "e", "n", "d", "o", "r", " ", "i", "n", "v", "o", "i", "c", "e",
             " ", "n", "u", "m", "b", "e", "r", " ", "f", "i", "l", "t", "e", "r", ".">> >>,
       << <<"v", "e", "n", "d", "o", "r", "_", "i", "n", "v", "o", "i", "c", "e", "_", "d",
             "a", "t", "e">>, <<"V", "e", "n", "d", "o", "r", " ", "i", "n", "v", "o", "i",
             "c", "e", " ", "d", "a", "t", "e", " ", "f", "i", "l", "t", "e", "r", " ", "(",
             "Y", "Y", "Y", "Y", "-", "M", "M", "-", "D", "D", ")", ".">> >>,
       << <<"i", "n", "v", "o", "i", "c", "e", "_", "a", "p", "p", "r", "o", "v", "e", "d",
             "_", "b", "y">>, <<"A", "p", "p", "r", "o", "v", "e", "r", " ", "u", "s", "e",
             "r", " ", "I", "D", "s", " ", "f", "i", "l", "t", "e", "r", ".">> >>,
       << <<"i", "n", "v", "o", "i", "c", "e", "_", "a", "p", "p", "r", "o", "v", "e", "d",
             "_", "d", "a", "t", "e">>, <<"I", "n", "v", "o", "i", "c", "e", " ", "a", "p",
             "p", "r", "o", "v", "a", "l", " ", "d", "a", "t", "e", " ", "f", "i", "l", "t",
             "e", "r", ".">> >>,
       << <<"g", "r", "o", "s", "s", "_", "i", "n", "v", "o", "i", "c", "e", "_", "a", "m",
             "o", "u", "n", "t">>, <<"G", "r", "o", "s", "s", " ", "i", "n", "v", "o", "i",
             "c", "e", " ", "a", "m", "o", "u", "n", "t", " ", "f", "i", "l", "t", "e", "r",
             ".">> >>,
       << <<"t", "d", "s", "_", "a", "m", "o", "u", "n", "t">>, <<"T", "D", "S", " ", "a",
             "m", "o", "u", "n", "t", " ", "f", "i", "l", "t", "e", "r", ".">> >>,
       << <<"a", "d", "v", "a", "n", "c", "e", "_", "d", "e", "d", "u", "c", "t", "e",
             "d">>, <<"A", "d", "v", "a", "n", "c", "e", " ", "d", "e", "d", "u", "c", "t",
             "e", "d", " ", "a", "m", "o", "u", "n", "t", " ", "f", "i", "l", "t", "e", "r",
             ".">> >>,
       << <<"n", "e", "t", "_", "p", "a", "y", "a", "b", "l", "e", "_", "a", "m", "o", "u",
             "n", "t">>, <<"N", "e", "t", " ", "p", "a", "y", "a", "b", "l", "e", " ", "a",
             "m", "o", "u", "n", "t", " ", "f", "i", "l", "t", "e", "r", ".">> >>,
       << <<"p", "a", "y", "m", "e", "n", "t", "_", "r", "e", "q", "u", "e", "s", "t", "e",
             "d", "_", "b", "y">>, <<"P", "a", "y", "m", "e", "n", "t", " ", "r", "e", "q",
             "u", "e", "s", "t", "i", "n", "g", " ", "u", "s", "e", "r", " ", "I", "D", "s",
             " ", "f", "i", "l", "t", "e", "r", ".">> >>,
       << <<"p", "a", "y", "m", "e", "n", "t", "_", "e", "n", "t", "r", "y", "_", "n",
             "o">>, <<"P", "a", "y", "m", "e", "n", "t", " ", "e", "n", "t", "r", "y", " ",
             "n", "u", "m", "b", "e", "r", " ", "f", "i", "l", "t", "e", "r", ".">> >>,
       << <<"p", "a", "y", "m", "e", "n", "t", "_", "e", "n", "t", "r", "y", "_", "d", "a",
             "t", "e">>, <<"P", "a", "y", "m", "e", "n", "t", " ", "e", "n", "t", "r", "y",
             " ", "d", "a", "t", "e", " ", "f", "i", "l", "t", "e", "r", ".">> >>,
       << <<"p", "a", "y", "m", "e", "n", "t", "_", "a", "m", "o", "u", "n", "t">>, <<"P",
             "a", "y", "m", "e", "n", "t", " ", "a", "m", "o", "u", "n", "t", " ", "f", "i",
             "l", "t", "e", "r", ".">> >>,
       << <<"r", "e", "m", "a", "i", "n", "i", "n", "g", "_", "p", "a", "y", "m", "e", "n",
             "t", "_", "a", "m", "o", "u", "n", "t">>, <<"R", "e", "m", "a", "i", "n", "i",
             "n", "g", " ", "p", "a", "y", "m", "e", "n", "t", " ", "a", "m", "o", "u", "n",
             "t", " ", "f", "i", "l", "t", "e", "r", ".">> >>,
       << <<"p", "a", "y", "m", "e", "n", "t", "_", "m", "o", "d", "e">>, <<"P", "a", "y",
             "m", "e", "n", "t", " ", "m", "o", "d", "e", " ", "(", "e", ".", "g", ".", ",",
             " ", "N", "E", "F", "T", "/", "R", "T", "G", "S", "/", "C", "h", "e", "q", "u",
             "e", ")", ".">> >>,
       << <<"i", "n", "s", "t", "r", "u", "m", "e", "n", "t", "_", "n", "o">>, <<"I", "n",
             "s", "t", "r", "u", "m", "e", "n", "t", "/", "c", "h", "e", "q", "u", "e", " ",
             "n", "u", "m", "b", "e", "r", ".">> >>,
       << <<"c", "o", "m", "p", "a", "n", "y", "_", "b", "a", "n", "k">>, <<"C", "o", "m",
             "p", "a", "n", "y", " ", "b", "a", "n", "k", " ", "n", "a", "m", "e", ".">> >>,
       << <<"u", "t", "r", "_", "n", "o">>, <<"B", "a", "n", "k", " ", "U", "T", "R", " ",
             "n", "u", "m", "b", "e", "r", ".">> >>,
       << <<"f", "r", "o", "m", "_", "a", "m", "o", "u", "n", "t", "_", "c", "l", "e", "a",
             "r", "i", "n", "g", "_", "d", "a", "t", "e">>, <<"S", "t", "a", "r", "t", " ",
             "d", "a", "t", "e", " ", "f", "o", "r", " ", "a", "m", "o", "u", "n", "t", " ",
             "c", "l", "e", "a", "r", "i", "n", "g", " ", "r", "a", "n", "g", "e", ".">> >>,
       << <<"t", "o", "_", "a", "m", "o", "u", "n", "t", "_", "c", "l", "e", "a", "r", "i",
             "n", "g", "_", "d", "a", "t", "e">>, <<"E", "n", "d", " ", "d", "a", "t", "e",
             " ", "f", "o", "r", " ", "a", "m", "o", "u", "n", "t", " ", "c", "l", "e", "a",
             "r", "i", "n", "g", " ", "r", "a", "n", "g", "e", ".">> >>,
       << <<"p", "a", "y", "m", "e", "n", "t", "_", "a", "p", "p", "r", "o", "v", "a", "l",
             "_", "s", "t", "a", "t", "u", "s">>, <<"P", "a", "y", "m", "e", "n", "t", " ",
             "a", "p", "p", "r", "o", "v", "a", "l", " ", "s", "t", "a", "t", "u", "s", " ",
             "f", "i", "l", "t", "e", "r", ".">> >>,
       << <<"p", "a", "y", "m", "e", "n", "t", "_", "s", "t", "a", "t", "u", "s">>, <<"P",
             "a", "y", "m", "e", "n", "t", " ", "s", "t", "a", "t", "u", "s", " ", "f", "i",
             "l", "t", "e", "r", ".">> >>,
       << <<"g", "r", "n", "_", "a", "p", "p", "r", "o", "v", "a", "l", "_", "n",
             "o">>, <<"G", "R", "N", " ", "a", "p", "p", "r", "o", "v", "a", "l", " ", "n",
             "u", "m", "b", "e", "r", ".">> >>,
       << <<"c", "o", "l", "u", "m", "n", "_", "l", "i", "s", "t">>, <<"C", "o", "l", "u",
             "m", "n", "s", " ", "t", "o", " ", "i", "n", "c", "l", "u", "d", "e", " ", "i",
             "n", " ", "t", "h", "e", " ", "r", "e", "p", "o", "r", "t", " ", "o", "u", "t",
             "p", "u", "t", ".">> >>,
       << <<"f", "r", "o", "m", "_", "p", "a", "y", "m", "e", "n", "t", "_", "d", "a", "t",
             "e">>, <<"S", "t", "a", "r", "t", " ", "p", "a", "y", "m", "e", "n", "t", " ",
             "d", "a", "t", "e", " ", "r", "a", "n", "g", "e", ".">> >>,
       << <<"t", "o", "_", "p", "a", "y", "m", "e", "n", "t", "_", "d", "a", "t",
             "e">>, <<"E", "n", "d", " ", "p", "a", "y", "m", "e", "n", "t", " ", "d", "a",
             "t", "e", " ", "r", "a", "n", "g", "e", ".">> >>,
       << <<"s", "e", "a", "r", "c", "h", "_", "q", "u", "e", "r", "y">>, <<"F", "r", "e",
             "e", "-", "t", "e", "x", "t", " ", "s", "e", "a", "r", "c", "h", " ", "q", "u",
             "e", "r", "y", ".">> >>,
       << <<"i", "s", "_", "e", "x", "c", "e", "l", "_", "d", "o", "w", "n", "l", "o", "a",
             "d">>, <<"I", "f", " ", "'", "1", "'", ",", " ", "e", "x", "p", "o", "r", "t",
             " ", "a", "s", " ", "E", "x", "c", "e", "l", " ", "i", "n", "s", "t", "e", "a",
             "d", " ", "o", "f", " ", "J", "S", "O", "N", ".">> >>,
       << <<"i", "n", "v", "o", "i", "c", "e", "_", "p", "a", "y", "m", "e", "n", "t", "_",
             "r", "e", "m", "a", "r", "k", "s">>, <<"R", "e", "m", "a", "r", "k", "s", " ",
             "f", "i", "l", "t", "e", "r", " ", "f", "o", "r", " ", "i", "n", "v", "o", "i",
             "c", "e", " ", "p", "a", "y", "m", "e", "n", "t", "s", ".">> >>,
       << <<"r", "e", "q", "u", "e", "s", "t", "_", "s", "e", "r", "v", "e", "r", "_", "t",
             "i", "m", "e">>, <<"C", "l", "i", "e", "n", "t", "-", "s", "i", "d", "e", " ",
             "r", "e", "q", "u", "e", "s", "t", " ", "t", "i", "m", "e", " ", "(", "f", "o",
             "r", " ", "l", "o", "g", "g", "i", "n", "g", ")", ".">> >>,
       << <<"d", "e", "v", "i", "c", "e", "_", "i", "n", "f", "o">>, <<"D", "e", "v", "i",
             "c", "e", "/", "b", "r", "o", "w", "s", "e", "r", " ", "m", "e", "t", "a", "d",
             "a", "t", "a", ".">> >>,
       << <<"d", "e", "v", "i", "c", "e", "_", "t", "y", "p", "e">>, <<"T", "y", "p", "e",
             " ", "o", "f", " ", "d", "e", "v", "i", "c", "e", " ", "(", "D", "e", "s", "k",
             "t", "o", "p", ",", " ", "M", "o", "b", "i", "l", "e", ",", " ", "e", "t", "c",
             ".", ")", ".">> >>,
       << <<"i", "s", "_", "m", "o", "b", "i", "l", "e">>, <<"1", " ", "=", " ", "m", "o",
             "b", "i", "l", "e", ",", " ", "0", " ", "=", " ", "n", "o", "t", " ", "m", "o",
             "b", "i", "l", "e", ".">> >>,
       << <<"i", "s", "_", "t", "a", "b", "l", "e", "t">>, <<"1", " ", "=", " ", "t", "a",
             "b", "l", "e", "t", ",", " ", "0", " ", "=", " ", "n", "o", "t", " ", "t", "a",
             "b", "l", "e", "t", ".">> >>,
       << <<"i", "s", "_", "d", "e", "s", "k", "t", "o", "p">>, <<"1", " ", "=", " ", "d",
             "e", "s", "k", "t", "o", "p", ",", " ", "0", " ", "=", " ", "n", "o", "t", " ",
             "d", "e", "s", "k", "t", "o", "p", ".">> >>,
       << <<"b", "r", "o", "w", "s", "e", "r">>, <<"B", "r", "o", "w", "s", "e", "r", " ",
             "n", "a", "m", "e", " ", "(", "e", ".", "g", ".", ",", " ", "C", "h", "r", "o",
             "m", "e", ")", ".">> >>,
       << <<"o", "s">>, <<"O", "p", "e", "r", "a", "t", "i", "n", "g", " ", "s", "y", "s",
             "t", "e", "m", " ", "(", "e", ".", "g", ".", ",", " ", "W", "i", "n", "d", "o",
             "w", "s", "/", "M", "a", "c", ")", ".">> >>,
       << <<"o", "s", "_", "v", "e", "r", "s", "i", "o", "n">>, <<"O", "S", " ", "v", "e",
             "r", "s", "i", "o", "n", " ", "(", "e", ".", "g", ".", ",", " ", "w", "i", "n",
             "d", "o", "w", "s", "-", "1", "0", ")", ".">> >>,
       << <<"u", "s", "e", "r", "_", "a", "g", "e", "n", "t">>, <<"F", "u", "l", "l", " ",
             "u", "s", "e", "r", " ", "a", "g", "e", "n", "t", " ", "s", "t", "r", "i", "n",
             "g", ".">> >>,
       << <<"i", "p", "_", "a", "d", "d", "r", "e", "s", "s">>, <<"C", "l", "i", "e", "n",
             "t", " ", "I", "P", " ", "a", "d", "d", "r", "e", "s", "s", " ", "(", "i", "f",
             " ", "a", "v", "a", "i", "l", "a", "b", "l", "e", ")", ".">> >> >>

\* lines 459-506 (vendor = FALSE) and 729-812 (vendor = TRUE), for a key
\* that is a str
_infer_desc(key, value, vendor) ==
    LET k == lower(key)
        domain_map == IF vendor THEN VendorDomainMap ELSE SheetDomainMap
    IN  IF \E i \in 1..Len(domain_map) : domain_map[i][1] = k
        THEN domain_map[CHOOSE i \in 1..Len(domain_map) : domain_map[i][1] = k][2]
        ELSE IF contains(k, <<"e", "m", "a", "i", "l">>)
        THEN (IF vendor THEN <<"E", "m", "a", "i", "l", " ", "a", "d", "d", "r", "e", "s",
              "s", ".">> ELSE <<"U", "s", "e", "r", " ", "e", "m", "a", "i", "l", " ", "a",
              "d", "d", "r", "e", "s", "s", ".">>)
        ELSE IF endswith(k, <<"_", "i", "d">>) \/ k = <<"i", "d">> THEN <<"U", "n", "i", "q",
              "u", "e", " ", "i", "d", "e", "n", "t", "i", "f", "i", "e", "r", ".">>
        ELSE IF contains(k, <<"p", "h", "o", "n", "e">>) \/ contains(k, <<"m", "o", "b", "i",
              "l", "e">>) THEN <<"P", "h", "o", "n", "e", " ", "n", "u", "m", "b", "e", "r",
              ".">>
        ELSE IF contains(k, <<"n", "a", "m", "e">>) THEN <<"D", "e", "s", "c", "r", "i", "p",
              "t", "i", "v", "e", " ", "n", "a", "m", "e", ".">>
        ELSE IF contains(k, <<"p", "a", "s", "s", "w", "o", "r",
              "d">>) \/ (~vendor /\ contains(k, <<"p", "a", "s", "s", "c", "o", "d", "e">>))
        THEN (IF vendor THEN <<"S", "e", "c", "r", "e", "t", " ", "c", "r", "e", "d", "e",
              "n", "t", "i", "a", "l", ";", " ", "n", "e", "v", "e", "r", " ", "l", "o", "g",
              ".">>
              ELSE <<"S", "e", "c", "r", "e", "t", " ", "c", "r", "e", "d", "e", "n", "t",
                    "i", "a", "l", ";", " ", "d", "o", " ", "n", "o", "t", " ", "l", "o",
                    "g", ".">>)
        ELSE IF contains(k, <<"g", "s", "t">>) THEN <<"G", "S", "T", " ", "i", "d", "e", "n",
              "t", "i", "f", "i", "c", "a", "t", "i", "o", "n", " ", "n", "u", "m", "b", "e",
              "r", ".">>
        ELSE IF contains(k, <<"p", "a", "n">>) THEN <<"P", "A", "N", " ", "n", "u", "m", "b",
              "e", "r", ".">>
        ELSE IF contains(k, <<"a", "c", "c", "o", "u", "n", "t">>) /\ contains(k, <<"n", "u",
              "m", "b", "e", "r">>)
        THEN (IF vendor THEN <<"B", "a", "n", "k", " ", "a", "c", "c", "o", "u", "n", "t",
              " ", "n", "u", "m", "b", "e", "r", " ", "(", "m", "a", "s", "k", " ", "i", "n",
              " ", "l", "o", "g", "s", ")", ".">>
              ELSE <<"B", "a", "n", "k", " ", "a", "c", "c", "o", "u", "n", "t", " ", "n",
                    "u", "m", "b", "e", "r", " ", "(", "m", "a", "s", "k", " ", "f", "o",
                    "r", " ", "s", "e", "c", "u", "r", "i", "t", "y", ")", ".">>)
        ELSE IF contains(k, <<"c", "u", "r", "r", "e", "n", "c", "y">>) THEN <<"C", "u", "r",
              "r", "e", "n", "c", "y", " ", "c", "o", "d", "e", " ", "(", "e", ".", "g", ".",
              ",", " ", "I", "N", "R", ",", " ", "U", "S", "D", ")", ".">>
        ELSE IF value.t = "list" THEN <<"L", "i", "s", "t", " ", "o", "f", " ", "v", "a",
              "l", "u", "e", "s", ".">>
        ELSE IF value.t = "dict" THEN <<"N", "e", "s", "t", "e", "d", " ", "o", "b", "j",
              "e", "c", "t", ".">>
        ELSE IF vendor THEN <<>>
        ELSE <<"F", "i", "e", "l", "d", " ", "'">> \o key \o <<"'", ".">>

\* bool(v) of a dict key
truthy(v) ==
    CASE v.t = "str" -> v.s # <<>>
      [] v.t = "int" -> v.s # <<"0">>
      [] v.t = "bool" -> v.s = W_true
      [] v.t = "null" -> FALSE
      [] OTHER -> v.items # <<>>

\* str(v) inside an f-string
format_str(v) == IF v.t = "str" THEN v.s ELSE py_repr(v)

\* lines 508-527 and 814-832: [ok, out]; prefix is a value, the str "" at the
\* top; ok is FALSE when prefix.split raises AttributeError because prefix is
\* a dict key that is not a str
RECURSIVE _flatten(_, _, _)
RECURSIVE flatten_items(_, _, _)
flatten_items(prefix, items, vendor) ==
    IF items = <<>> THEN [ok |-> TRUE, out |-> <<>>]
    ELSE LET k == Head(items).items[1]
             child == IF truthy(prefix)
                      THEN Val("str", format_str(prefix) \o <<".">> \o format_str(k), <<>>)
                      ELSE k
             first == _flatten(child, Head(items).items[2], vendor)
             rest == flatten_items(prefix, Tail(items), vendor)
         IN  IF first.ok /\ rest.ok THEN [ok |-> TRUE, out |-> first.out \o rest.out]
             ELSE [ok |-> FALSE, out |-> <<>>]

_flatten(prefix, obj, vendor) ==
    IF obj.t = "dict" THEN flatten_items(prefix, obj.items, vendor)
    ELSE IF prefix.t # "str" THEN [ok |-> FALSE, out |-> <<>>]
    ELSE LET parts == split(prefix.s, ".")
             row == [name |-> prefix.s, type |-> _infer_type(obj),
                     description |-> _infer_desc(parts[Len(parts)], obj, vendor)]
         IN  IF obj.t = "list" /\ obj.items # <<>> /\ obj.items[1].t \in {"dict", "list"}
             THEN LET sub == _flatten(Val("str", prefix.s \o <<"[",
                   "]">>, <<>>), obj.items[1], vendor)
                  IN  [ok |-> sub.ok, out |-> << row >> \o sub.out]
             ELSE [ok |-> TRUE, out |-> << row >>]

\* the example the sheet and vendor styles show: a str example is coerced
\* first (lines 436-437 and 701-702)
shown_example(rb) ==
    IF rb.example.t = "str" THEN _coerce_json(rb.example.s) ELSE rb.example

\* the fenced block of lines 438-445 and 703-710, as a list of zero or one
\* lines; json.dumps raises for a value it cannot serialize
example_block(example) ==
    IF example.t = "null" THEN [ok |-> TRUE, lines |-> <<>>]
    ELSE IF example.t # "str" /\ ~Serializable(example) THEN [ok |-> FALSE, lines |-> <<>>]
    ELSE [ok |-> TRUE,
          lines |-> << <<"U+0060", "U+0060", "U+0060", "j", "s", "o", "n", "\n">>
                       \o (IF example.t = "str" THEN example.s
                           ELSE json_dumps_indent(example, 0))
                       \o <<"\n", "U+0060", "U+0060", "U+0060">> >>]

parameters_in(op, loc) == SelectSeq(op.parameters, LAMBDA p : p.in = loc)

\* the "### Responses" table both styles end an operation with
responses_lines(op) ==
    IF op.responses = <<>> THEN <<>>
    ELSE << <<"\n", "#", "#", "#", " ", "R", "e", "s", "p", "o", "n", "s", "e", "s">>, <<"|",
          " ", "S", "t", "a", "t", "u", "s", " ", "|", " ", "D", "e", "s", "c", "r", "i",
          "p", "t", "i", "o", "n", " ", "|", "\n", "|", "-", "-", "-", "|", "-", "-", "-",
          "|">> >>
         \o [i \in 1..Len(op.responses) |->
                <<"|", " ">> \o chars_of(op.responses[i].code) \o <<" ", "|", " ">>
                \o chars_of(op.responses[i].description) \o <<" ", "|">>]

\* the "Authentication" lines of both styles
auth_lines(security, jwt) ==
    (IF \E i \in 1..Len(security) : security[i] = "bearerAuth"
     THEN << <<"-", " ", "B", "e", "a", "r", "e", "r", " ", "t", "o", "k", "e", "n",
           " ">> \o (IF jwt THEN <<"(", "J", "W", "T", ")", " ">> ELSE <<>>)
             \o <<"v", "i", "a", " ", "U+0060", "A", "u", "t", "h", "o", "r", "i", "z", "a",
                   "t", "i", "o", "n", ":", " ", "B", "e", "a", "r", "e", "r", " ", "<", "t",
                   "o", "k", "e", "n", ">", "U+0060", " ", "h", "e", "a", "d", "e", "r">> >>
     ELSE <<>>)
    \o (IF \E i \in 1..Len(security) : security[i] = "apiKeyAuth"
        THEN << <<"-", " ", "A", "P", "I", " ", "K", "e", "y", " ", "v", "i", "a", " ",
              "U+0060", "X", "-", "A", "P", "I", "-", "K", "e", "y", ":", " ", "<", "k", "e",
              "y", ">", "U+0060", " ", "h", "e", "a", "d", "e", "r">> >>
        ELSE <<>>)

\* lines 438-536 and 698-850: the lines of a request body, [ok, lines]
body_lines(rb, vendor) ==
    LET fields_of(example) ==
            IF example.t \in {"dict",
                  "list"} THEN _flatten(Val("str", <<>>, <<>>), example, vendor)
            ELSE [ok |-> TRUE, out |-> <<>>]
        field_line(f) ==
            LET parts == split(f.name, ".")
            IN  <<"|", " ", "U+0060">> \o f.name \o <<"U+0060", " ", "|",
                  " ">> \o f.type \o <<" ", "|", " ">>
                \o (IF vendor
                    THEN (IF parts[Len(parts)] \in {<<"c", "o", "m", "p", "a", "n", "y", "_",
                          "i", "d">>, <<"u", "s", "e", "r", "_", "i", "d">>, <<"u", "s", "e",
                          "r", "_", "r", "o", "l", "e", "_", "i", "d">>}
                          THEN <<"Y", "e", "s">> ELSE <<"N", "o">>) \o <<" ", "|", " ">>
                    ELSE <<>>)
                \o f.description \o <<" ", "|">>
        \* lines 843-849: the table of the dict under the key device_info
        device_info(example) ==
            LET at == IF example.t = "dict"
                      THEN {i \in 1..Len(example.items) :
                               /\ example.items[i].items[1] = Val("str", <<"d", "e", "v",
                                     "i", "c", "e", "_", "i", "n", "f", "o">>, <<>>)
                               /\ example.items[i].items[2].t = "dict"}
                      ELSE {}
                dev == example.items[CHOOSE i \in at : TRUE].items[2].items
            IN  IF ~vendor \/ at = {} THEN [ok |-> TRUE, lines |-> <<>>]
                ELSE IF \E i \in 1..Len(dev) : dev[i].items[1].t # "str"
                THEN [ok |-> FALSE, lines |-> <<>>]
                ELSE [ok |-> TRUE,
                      lines |-> << <<"\n", "#", "#", "#", "#", " ", "d", "e", "v", "i", "c",
                            "e", "_", "i", "n", "f", "o", " ", "o", "b", "j", "e", "c",
                            "t">>,
                                   <<"|", " ", "F", "i", "e", "l", "d", " ", "|", " ", "T",
                                         "y", "p", "e", " ", "|", " ", "D", "e", "s", "c",
                                         "r", "i", "p", "t", "i", "o", "n", " ", "|", "\n",
                                         "|", "-", "-", "-", "|", "-", "-", "-", "|", "-",
                                         "-", "-", "|">> >>
                                \o [i \in 1..Len(dev) |->
                                       <<"|", " ",
                                             "U+0060">> \o dev[i].items[1].s \o <<"U+0060",
                                             " ", "|", " ">>
                                       \o _infer_type(dev[i].items[2]) \o <<" ", "|", " ">>
                                       \o _infer_desc(dev[i].items[1].s, dev[i].items[2], TRUE)
                                       \o <<" ", "|">>]]
        table(example, fields, device) ==
            IF fields.out = <<>> THEN <<>>
            ELSE << <<"\n", "#", "#", "#", " ", "R", "e", "q", "u", "e", "s", "t", " ", "B",
                  "o", "d", "y", " ", "F", "i", "e", "l", "d", "s">>,
                    IF vendor THEN <<"|", " ", "F", "i", "e", "l", "d", " ", "|", " ", "T",
                          "y", "p", "e", " ", "|", " ", "R", "e", "q", "u", "i", "r", "e",
                          "d", " ", "|", " ", "D", "e", "s", "c", "r", "i", "p", "t", "i",
                          "o", "n", " ", "|", "\n", "|", "-", "-", "-", "|", "-", "-", "-",
                          "|", "-", "-", "-", "|", "-", "-", "-", "|">>
                    ELSE <<"|", " ", "F", "i", "e", "l", "d", " ", "|", " ", "T", "y", "p",
                          "e", " ", "|", " ", "D", "e", "s", "c", "r", "i", "p", "t", "i",
                          "o", "n", " ", "|", "\n", "|", "-", "-", "-", "|", "-", "-", "-",
                          "|", "-", "-", "-", "|">> >>
                 \o [i \in 1..Len(fields.out) |-> field_line(fields.out[i])]
                 \o device.lines
        shown(example, block) ==
            IF ~block.ok \/ ~fields_of(example).ok
               \/ (fields_of(example).out # <<>> /\ ~device_info(example).ok)
            THEN [ok |-> FALSE, lines |-> <<>>]
            ELSE [ok |-> TRUE,
                  lines |-> << <<"\n", "#", "#", "#", " ", "R", "e", "q", "u", "e", "s", "t",
                        " ", "B", "o", "d", "y">> >> \o block.lines
                            \o table(example, fields_of(example), device_info(example))]
    IN  IF ~rb.present THEN [ok |-> TRUE, lines |-> <<>>]
        ELSE shown(shown_example(rb), example_block(shown_example(rb)))

\* the tables of lines 411-428, for a list of parameters that is not empty
sheet_parameter_lines(op) ==
    LET headers == parameters_in(op, "header")
        query == parameters_in(op, "query")
        path_params == parameters_in(op, "path")
    IN  (IF headers # <<>>
         THEN << <<"\n", "#", "#", "#", " ", "H", "e", "a", "d", "e", "r", "s">>, <<"|", " ",
               "N", "a", "m", "e", " ", "|", " ", "E", "x", "a", "m", "p", "l", "e", " ",
               "|", "\n", "|", "-", "-", "-", "|", "-", "-", "-", "|">> >>
              \o [i \in 1..Len(headers) |->
                     <<"|", " ">> \o headers[i].name \o <<" ", "|", " ">>
                     \o (IF headers[i].has_example THEN headers[i].example ELSE <<>>) \o <<" ",
                           "|">>]
         ELSE <<>>)
        \o (IF path_params # <<>>
            THEN << <<"\n", "#", "#", "#", " ", "P", "a", "t", "h", " ", "P", "a", "r", "a",
                  "m", "s">>, <<"|", " ", "N", "a", "m", "e", " ", "|", " ", "R", "e", "q",
                  "u", "i", "r", "e", "d", " ", "|", "\n", "|", "-", "-", "-", "|", "-", "-",
                  "-", "|">> >>
                 \o [i \in 1..Len(path_params) |->
                        <<"|", " ">> \o path_params[i].name \o <<" ", "|", " ">>
                        \o (IF path_params[i].required THEN <<"y", "e", "s">> ELSE <<"n",
                              "o">>) \o <<" ", "|">>]
            ELSE <<>>)
        \o (IF query # <<>>
            THEN << <<"\n", "#", "#", "#", " ", "Q", "u", "e", "r", "y", " ", "P", "a", "r",
                  "a", "m", "s">>, <<"|", " ", "N", "a", "m", "e", " ", "|", "\n", "|", "-",
                  "-", "-", "|">> >>
                 \o [i \in 1..Len(query) |-> <<"|", " ">> \o query[i].name \o <<" ", "|">>]
            ELSE <<>>)

\* lines 404-558: the lines of one operation, [ok, lines]
sheet_operation_lines(path, method, op, base_url) ==
    LET made(body) ==
            [ok |-> body.ok,
             lines |->
                << <<"#", "#", " ">> \o (IF op.summary # <<>> THEN op.summary
                             ELSE upper(method) \o <<" ">> \o path),
                   <<>>,
                   <<"-", " ", "M", "e", "t", "h", "o", "d", ":", " ", "*",
                         "*">> \o upper(method) \o <<"*", "*">>,
                   <<"-", " ", "U", "R", "L", ":", " ", "U+0060">> \o path \o <<"U+0060">> >>
                \o (IF op.tags # <<>> THEN << <<"-", " ", "T", "a", "g", "s", ":",
                      " ">> \o JoinWith(op.tags, <<",", " ">>) >> ELSE <<>>)
                \o sheet_parameter_lines(op)
                \o body.lines
                \o << <<"\n", "#", "#", "#", " ", "E", "x", "a", "m", "p", "l", "e", " ",
                      "c", "U", "R", "L">>,
                      <<"U+0060", "U+0060", "U+0060", "b", "a", "s", "h", "\n", "c", "u",
                            "r", "l", " ", "-", "X", " ">> \o upper(method) \o <<" ",
                            "\"">> \o base_url \o path
                      \o <<"\"", "\n", "U+0060", "U+0060", "U+0060">> >>
                \o responses_lines(op)
                \o << <<>> >>]
    IN  made(body_lines(op.requestBody, FALSE))

\* lines 381-560: [ok, text]
_render_sheet_style(d) ==
    LET base_url == IF d.servers # <<>> THEN d.servers[1] ELSE <<>>
        head ==
            << <<"#", " ">> \o d.title, <<>> >>
            \o (IF base_url # <<>> THEN << <<"*", "*", "B", "a", "s", "e", " ", "U", "R",
                  "L", "*", "*", ":", " ",
                  "U+0060">> \o base_url \o <<"U+0060">> >> ELSE <<>>)
            \o (IF d.security # <<>>
                THEN << <<>>, <<"*", "*", "A", "u", "t", "h", "e", "n", "t", "i", "c", "a",
                      "t", "i", "o", "n", "*", "*", ":">> >> \o auth_lines(d.security, TRUE)
                ELSE <<>>)
            \o << <<>>,
                  <<">", " ", "T", "h", "i", "s", " ", "d", "o", "c", "u", "m", "e", "n",
                        "t", " ", "i", "s", " ", "g", "e", "n", "e", "r", "a", "t", "e", "d",
                        " ", "a", "u", "t", "o", "m", "a", "t", "i", "c", "a", "l", "l", "y",
                        " ", "f", "r", "o", "m", " ", "p", "r", "o", "v", "i", "d", "e", "d",
                        " ", "c", "U", "R", "L", " ", "r", "e", "q", "u", "e", "s", "t", "s",
                        ".">>,
                  <<>> >>
        joined(ops) ==
            IF \A i \in 1..Len(ops) : ops[i].ok
            THEN [ok |-> TRUE,
                  text |-> strip(JoinWith(head \o Flatten([i \in 1..Len(ops) |-> ops[i].lines]),
                                          <<"\n">>)) \o <<"\n">>]
            ELSE [ok |-> FALSE, text |-> <<>>]
    IN  joined(Flatten([i \in 1..Len(d.paths) |->
                   [j \in 1..Len(d.paths[i].ops) |->
                       sheet_operation_lines(d.paths[i].path, d.paths[i].ops[j].method,
                                             d.paths[i].ops[j].op, base_url)]]))

\* re.sub(r"\s+API$", "", title)
display_title(title) ==
    IF endswith(title, <<"A", "P", "I">>) /\ Len(title) > 3 /\ title[Len(title) - 3] \in WS
    THEN rstrip_chars(SubSeq(title, 1, Len(title) - 3), WS)
    ELSE title

\* lines 656-858: the lines of one operation, [ok, lines]
vendor_operation_lines(path, method, op) ==
    LET path_params == parameters_in(op, "path")
        query_params == parameters_in(op, "query")
        headers == parameters_in(op, "header")
        desc == IF op.description.some THEN strip(op.description.v) ELSE <<>>
        made(body) ==
            [ok |-> body.ok,
             lines |->
                << IF contains(path, <<"a", "j", "a", "x", "_", "g", "e", "t", "e", "m", "p",
                      "c", "o", "s", "t", "c", "e", "n", "t", "e", "r">>) THEN <<"#", "#",
                      " ", "G", "e", "t", " ", "E", "m", "p", "l", "o", "y", "e", "e", " ",
                      "C", "o", "s", "t", " ", "C", "e", "n", "t", "e", "r">>
                   ELSE <<"#", "#", " ">> \o (IF op.summary # <<>> THEN op.summary
                                  ELSE upper(method) \o <<" ">> \o path),
                   <<>>,
                   <<"#", "#", "#", " ", "E", "n", "d", "p", "o", "i", "n", "t">>,
                   <<"U+0060">> \o upper(method) \o <<" ">> \o path \o <<"U+0060">> >>
                \o (IF op.tags # <<>> THEN << <<"-", " ", "T", "a", "g", "s", ":",
                      " ">> \o JoinWith(op.tags, <<",", " ">>) >> ELSE <<>>)
                \o << <<>>, <<"#", "#", "#", " ", "D", "e", "s", "c", "r", "i", "p", "t",
                      "i", "o", "n">>,
                      IF desc # <<>> THEN desc ELSE <<"(", "d", "e", "s", "c", "r", "i", "p",
                            "t", "i", "o", "n", " ", "n", "o", "t", " ", "p", "r", "o", "v",
                            "i", "d", "e", "d", ")">> >>
                \o (IF path_params # <<>>
                    THEN << <<"\n", "#", "#", "#", " ", "P", "a", "t", "h", " ", "P", "a",
                          "r", "a", "m", "e", "t", "e", "r", "s">>,
                            <<"|", " ", "N", "a", "m", "e", " ", "|", " ", "R", "e", "q",
                                  "u", "i", "r", "e", "d", " ", "|", " ", "D", "e", "s", "c",
                                  "r", "i", "p", "t", "i", "o", "n", " ", "|", "\n", "|",
                                  "-", "-", "-", "|", "-", "-", "-", "|", "-", "-", "-",
                                  "|">> >>
                         \o [i \in 1..Len(path_params) |->
                                <<"|", " ", "U+0060">> \o path_params[i].name \o <<"U+0060",
                                      " ", "|", " ">>
                                \o (IF path_params[i].required THEN <<"Y", "e",
                                      "s">> ELSE <<"N", "o">>) \o <<" ", "|", " ", "|">>]
                    ELSE <<>>)
                \o (IF query_params # <<>>
                    THEN << <<"\n", "#", "#", "#", " ", "Q", "u", "e", "r", "y", " ", "P",
                          "a", "r", "a", "m", "e", "t", "e", "r", "s">>,
                            <<"|", " ", "N", "a", "m", "e", " ", "|", " ", "T", "y", "p",
                                  "e", " ", "|", " ", "R", "e", "q", "u", "i", "r", "e", "d",
                                  " ", "|", " ", "D", "e", "s", "c", "r", "i", "p", "t", "i",
                                  "o", "n", " ", "|", "\n", "|", "-", "-", "-", "|", "-",
                                  "-", "-", "|", "-", "-", "-", "|", "-", "-", "-", "|">> >>
                         \o [i \in 1..Len(query_params) |->
                                <<"|", " ", "U+0060">> \o query_params[i].name \o <<"U+0060",
                                      " ", "|", " ", "s", "t", "r", "i", "n", "g", " ", "|",
                                      " ", "N", "o", " ", "|", " ", "|">>]
                    ELSE <<>>)
                \o (IF headers # <<>>
                    THEN << <<"\n", "#", "#", "#", " ", "H", "e", "a", "d", "e", "r",
                          "s">>, <<"|", " ", "H", "e", "a", "d", "e", "r", " ", "|", " ",
                          "T", "y", "p", "e", " ", "|", " ", "R", "e", "q", "u", "i", "r",
                          "e", "d", " ", "|", "\n", "|", "-", "-", "-", "|", "-", "-", "-",
                          "|", "-", "-", "-", "|">> >>
                         \o [i \in 1..Len(headers) |->
                                <<"|", " ">> \o headers[i].name \o <<" ", "|", " ", "S", "t",
                                      "r", "i", "n", "g", " ", "|", " ">>
                                \o (IF headers[i].required THEN <<"Y", "e", "s">> ELSE <<"N",
                                      "o">>) \o <<" ", "|">>]
                    ELSE <<>>)
                \o body.lines
                \o responses_lines(op)
                \o << <<>> >>]
    IN  made(body_lines(op.requestBody, TRUE))

\* lines 607-870: [ok, text]; the version is the "0.1.0" of line 350
_render_vendor_style(d) ==
    LET base_url == IF d.servers # <<>> THEN d.servers[1] ELSE <<>>
        head ==
            << <<"#", " ", "A", "P", "I", " ", "D", "o", "c", "u", "m", "e", "n", "t", "a",
                  "t", "i", "o", "n", ":", " ">> \o display_title(d.title), <<>>, <<"V", "e",
                  "r", "s", "i", "o", "n", ":", " ", "U+0060", "0", ".", "1", ".", "0",
                  "U+0060">> >>
            \o (IF base_url # <<>> THEN << <<"B", "a", "s", "e", " ", "U", "R", "L", ":",
                  " ", "U+0060">> \o base_url \o <<"U+0060">> >> ELSE <<>>)
            \o << <<>> >>
            \o (IF d.security # <<>>
                THEN << <<"#", "#", " ", "A", "u", "t", "h", "e", "n", "t", "i", "c", "a",
                      "t", "i", "o", "n">> >> \o auth_lines(d.security, FALSE) \o << <<>> >>
                ELSE <<>>)
            \o << <<"#", "#", " ", "C", "o", "n", "v", "e", "n", "t", "i", "o", "n", "s">>,
                  <<"-", " ", "C", "o", "n", "t", "e", "n", "t", "-", "T", "y", "p", "e",
                        ":", " ", "a", "p", "p", "l", "i", "c", "a", "t", "i", "o", "n", "/",
                        "j", "s", "o", "n">>,
                  <<"-", " ", "D", "a", "t", "e", "/", "t", "i", "m", "e", " ", "i", "n",
                        " ", "I", "S", "O", " ", "8", "6", "0", "1", ",", " ", "U", "T",
                        "C">>,
                  <<"-", " ", "I", "d", "e", "m", "p", "o", "t", "e", "n", "c", "y", ":",
                        " ", "G", "E", "T", " ", "s", "a", "f", "e", ";", " ", "P", "O", "S",
                        "T", "/", "P", "U", "T", "/", "P", "A", "T", "C", "H", "/", "D", "E",
                        "L", "E", "T", "E", " ", "m", "a", "y", " ", "c", "h", "a", "n", "g",
                        "e", " ", "s", "t", "a", "t", "e">>,
                  <<>> >>
        foot ==
            << <<"#", "#", " ", "S", "u", "p", "p", "o", "r", "t", " ", "&", " ", "S", "L",
                  "A">>,
               <<"-", " ", "R", "e", "s", "p", "o", "n", "s", "e", " ", "t", "i", "m", "e",
                     " ", "t", "a", "r", "g", "e", "t", "s", ":", " ", "9", "9", ".", "9",
                     "%", " ", "u", "p", "t", "i", "m", "e", ",", " ", "<", "3", "0", "0",
                     "m", "s", " ", "P", "5", "0", " ", "f", "o", "r", " ", "c", "o", "r",
                     "e", " ", "e", "n", "d", "p", "o", "i", "n", "t", "s">>,
               <<"-", " ", "C", "o", "n", "t", "a", "c", "t", ":", " ", "s", "u", "p", "p",
                     "o", "r", "t", "@", "e", "x", "a", "m", "p", "l", "e", ".", "c", "o",
                     "m">>,
               <<"-", " ", "C", "h", "a", "n", "g", "e", "l", "o", "g", ":", " ", "m", "a",
                     "i", "n", "t", "a", "i", "n", "e", "d", " ", "b", "y", " ", "p", "r",
                     "o", "v", "i", "d", "e", "r">>,
               <<>> >>
        joined(ops) ==
            IF \A i \in 1..Len(ops) : ops[i].ok
            THEN [ok |-> TRUE,
                  text |-> strip(JoinWith(head \o Flatten([i \in 1..Len(ops) |-> ops[i].lines])
                                          \o foot, <<"\n">>)) \o <<"\n">>]
            ELSE [ok |-> FALSE, text |-> <<>>]
    IN  joined(Flatten([i \in 1..Len(d.paths) |->
                   [j \in 1..Len(d.paths[i].ops) |->
                       vendor_operation_lines(d.paths[i].path, d.paths[i].ops[j].method,
                                              d.paths[i].ops[j].op)]]))

\* lines 563-567: the dispatch on style; any other style is the default one
render_styled(d, style) ==
    IF style = "sheet" THEN _render_sheet_style(d)
    ELSE IF style = "vendor" THEN _render_vendor_style(d)
    ELSE render_markdown_from_openapi(d)

\* a renderer of the sheet and vendor styles that stores the coerced example
\* back into the document
rendered_document_coerced(d, style) ==
    IF style = "default" THEN d
    ELSE [d EXCEPT !.paths =
            [i \in 1..Len(d.paths) |->
                [d.paths[i] EXCEPT !.ops =
                    [j \in 1..Len(d.paths[i].ops) |->
                        [d.paths[i].ops[j] EXCEPT !.op.requestBody.example =
                            shown_example(d.paths[i].ops[j].op.requestBody)]]]]]

\* the document as a call of render_markdown_from_openapi leaves it: no
\* statement of lines 381-870 stores into openapi or into an object reached
\* from it (example, headers and fields are locals)
rendered_document(d, style) == d

-----------------------------------------------------------------------------
(* render_markdown_from_openapi called twice on one document               *)

\* curl -d "(1, 2)" http://h/i
R_tuple == <<"c", "u", "r", "l", " ", "-", "d", " ", "\"", "(", "1", ",", " ", "2", ")",
      "\"", " ", "h", "t", "t", "p", ":", "/", "/", "h", "/", "i">>
\* curl -d "{1: 2}" http://h/i
R_intkey == <<"c", "u", "r", "l", " ", "-", "d", " ", "\"", "{", "1", ":", " ", "2", "}",
      "\"", " ", "h", "t", "t", "p", ":", "/", "/", "h", "/", "i">>
\* curl -d '{"id":[{"b":1}],"device_info":{"os":2}}' h/i
R_nested == <<"c", "u", "r", "l", " ", "-", "d", " ", "'", "{", "\"", "i", "d", "\"", ":",
      "[", "{", "\"", "b", "\"", ":", "1", "}", "]", ",", "\"", "d", "e", "v", "i", "c", "e",
      "_", "i", "n", "f", "o", "\"", ":", "{", "\"", "o", "s", "\"", ":", "2", "}", "}", "'",
      " ", "h", "/", "i">>

RenderCurls == {B_post, B_query, R_tuple, R_intkey, R_nested, B_set}

Styles == {"default", "sheet", "vendor"}

InitRender ==
    /\ pc = "render"
    /\ ParseIdle
    /\ InputsIdle
    /\ ServiceIdle
    /\ build = NoBuild
    /\ arg = <<>>
    /\ result = <<>>
    /\ \E n \in 0..MaxBatch : \E cs \in [1..n -> RenderCurls] :
       \E hint \in {None, Some(Hint_host)}, ai \in BOOLEAN, style \in Styles :
          /\ doc = build_openapi_from_requests(N_demo, hint,
                                               [i \in 1..n |-> parse_curl(cs[i])], ai)
          /\ shape = [kind |-> "render", style |-> style, doc |-> doc,
                      curls |-> cs, hint |-> hint, ai |-> ai]

\* one call of render_markdown_from_openapi(doc, style): its return value,
\* or the exception it raised, is appended to result
Render ==
    /\ pc \in {"render", "rendered_once"}
    /\ result' = Append(result, render_styled(doc, shape.style))
    /\ doc' = rendered_document(doc, shape.style)
    /\ pc' = IF pc = "render" THEN "rendered_once" ELSE "rendered_twice"
    /\ UNCHANGED <<shape, arg, parseVars, inputVars, build, serviceVars>>

SpecRender == InitRender /\ [][Render]_vars

-----------------------------------------------------------------------------
(* routers/docs.py: generate_docs_inline and export_docs, the endpoints    *)
(* without a project, called among upload, ingest and generate             *)

\* the bodies of the calls: payload keys that are absent are None
AdhocBody(text, list, base_url, format) ==
    [curls_text |-> text, curls |-> list, base_url |-> base_url, format |-> format,
     project_name |-> None]

A_plain == AdhocBody(B_plain \o <<"\n", "\n">> \o B_plain, <<>>, None, None)
A_sheet == AdhocBody(<<>>, << B_post, B_query >>, Some(Hint_host), Some("sheet"))
A_named == [AdhocBody(<<>>, << B_twice >>, None, Some("default")) EXCEPT
                !.project_name = Some(N_demo)]
A_set == AdhocBody(<<>>, << B_set >>, None, None)
A_none == AdhocBody(<<"h", "e", "l", "l", "o">>, <<>>, None, None)
AdhocBodies == {A_plain, A_sheet, A_named, A_set, A_none}

O_md == <<"m", "d">>
O_MD == <<"M", "D">>
O_docx == <<"d", "o", "c", "x">>
O_pdf == <<"p", "d", "f">>
ExportOutputs == {None, Some(O_MD), Some(O_docx)}

AdhocResponse(call, status, count) ==
    [call |-> call, project_id |-> <<>>, status |-> status, count |-> count]

\* payload.get("format") or payload.get("style") or "vendor"
adhoc_style(body) == IF body.format.some THEN body.format.v ELSE "vendor"

\* what the call was given, and the projects as they were when it began
AdhocShape(kind, body, output, library_ok) ==
    [kind |-> kind, body |-> body, output |-> output, library_ok |-> library_ok,
     before |-> store]

\* routers/docs.py generate_docs_inline; status 500 is the exception of the
\* renderer leaving the handler
Inline(body) ==
    /\ calls < MaxCalls
    /\ calls' = calls + 1
    /\ shape' = AdhocShape("inline", body, <<>>, TRUE)
    /\ \E requests_ \in {parse_curl_inputs([curls_text |-> body.curls_text,
                                            curls |-> body.curls])} :
          IF requests_ = <<>>
          THEN response' = AdhocResponse("inline", 400, 0) /\ result' = <<>>
          ELSE \E openapi_doc \in {build_openapi_from_requests(
                                       <<"A", "d", "-", "h", "o", "c", " ", "A", "P", "I">>,
                                       body.base_url, requests_, TRUE)} :
               \E md \in {render_styled(openapi_doc, adhoc_style(body))} :
                  IF md.ok
                  THEN /\ response' = AdhocResponse("inline", 200, Len(openapi_doc.paths))
                       /\ result' = << [openapi |-> openapi_doc, markdown |-> md.text] >>
                  ELSE response' = AdhocResponse("inline", 500, 0) /\ result' = <<>>
    /\ UNCHANGED <<pc, arg, parseVars, inputVars, buildVars, store, history>>

\* routers/docs.py export_docs, for each output the body may ask for;
\* library_ok is whether generate_pdf or generate_docx, which call into the
\* layout library, returned a path (SpecPdf has the steps of generate_pdf)
Export(body) ==
    /\ calls < MaxCalls
    /\ calls' = calls + 1
    /\ \E requests_ \in {parse_curl_inputs([curls_text |-> body.curls_text,
                                            curls |-> body.curls])} :
          IF requests_ = <<>>
          THEN /\ response' = AdhocResponse("export", 400, 0)
               /\ result' = <<>>
               /\ \E output \in ExportOutputs :
                     shape' = AdhocShape("export", body, lower(OrElse(output, O_pdf)), TRUE)
          ELSE \E openapi_doc \in {build_openapi_from_requests(
                                       IF body.project_name.some /\ body.project_name.v # <<>>
                                       THEN body.project_name.v
                                       ELSE <<"G", "e", "n", "e", "r", "a", "t", "e", "d", " ",
                                              "A", "P", "I">>,
                                       body.base_url, requests_, TRUE)} :
               \E md \in {render_styled(openapi_doc, adhoc_style(body))} :
               \E output \in ExportOutputs, library_ok \in BOOLEAN :
               \E out \in {lower(OrElse(output, O_pdf))} :
                  IF ~md.ok
                  THEN /\ response' = AdhocResponse("export", 500, 0)
                       /\ result' = <<>>
                       /\ shape' = AdhocShape("export", body, out, TRUE)
                  ELSE IF out = O_md \/ library_ok
                  THEN /\ response' = AdhocResponse("export", 200, Len(openapi_doc.paths))
                       /\ result' = << [file |-> IF out \in {O_md, O_docx} THEN out ELSE O_pdf,
                                        filename |-> lower(replace(openapi_doc.title,
                                                                   <<" ">>, <<"-">>)),
                                        text |-> md.text] >>
                       /\ shape' = AdhocShape("export", body, out, TRUE)
                  ELSE /\ response' = AdhocResponse("export", 500, 0)
                       /\ result' = <<>>
                       /\ shape' = AdhocShape("export", body, out, FALSE)
    /\ UNCHANGED <<pc, arg, parseVars, inputVars, buildVars, store, history>>

\* the calls on projects are those of Next with one name, one batch and the
\* default options
NextAdhoc ==
    \/ \E p \in ProjectIds : Upload(p, N_demo)
    \/ \E p \in ProjectIds : Ingest(p, Pay_pair)
    \/ \E p \in ProjectIds :
          Generate(p, [project_name |-> None, base_url |-> None, ai_enabled |-> TRUE])
    \/ \E body \in AdhocBodies : Inline(body)
    \/ \E body \in AdhocBodies : Export(body)

SpecAdhoc == InitService /\ [][NextAdhoc]_vars

\* the last call was a call of one of the endpoints without a project
AdhocAnswered == response.call \in {"inline", "export"}

\* the requests parse_curl_inputs returns for the body of the last call
AdhocRequests ==
    parse_curl_inputs([curls_text |-> shape.body.curls_text, curls |-> shape.body.curls])

\* C17: a call of generate-inline or export answers 400 when its body yields
\* zero requests and succeeds when it yields at least one (for a PDF or DOCX
\* export: when the layout library did not fail), whether or not a project
\* exists, and it leaves the batch, the document and the Markdown of every
\* project as they were.
C17_AdhocAlone ==
    AdhocAnswered =>
        /\ AdhocRequests = <<>> => response.status = 400
        /\ AdhocRequests # <<>> /\ shape.library_ok => response.status = 200
        /\ store = shape.before

\* the part of C17 about the projects: the store after the call is the store
\* before it, and the answer is the one the same body gets with no project
C17_AdhocFrame ==
    AdhocAnswered =>
        /\ store = shape.before
        /\ response.status = 400 <=> AdhocRequests = <<>>

\* an ad-hoc call that succeeded while a project with a persisted batch,
\* document and Markdown exists
C17_FrameWitness ==
    /\ AdhocAnswered
    /\ response.status = 200
    /\ \E p \in ProjectIds : store[p].exists /\ store[p].inputs # <<>> /\ store[p].markdown # <<>>

-----------------------------------------------------------------------------
(* _shell_split called on its own, on every short string of quotes,        *)
(* whitespace and letters                                                  *)

\* longest string given to _shell_split
MaxChars == 5

SplitChars == {"a", " ", "\n", "'", "\""}

SplitTexts == UNION {[1..n -> SplitChars] : n \in 0..MaxChars}

InitSplit ==
    /\ pc = "_shell_split"
    /\ shape = <<>>
    /\ ParseIdle
    /\ InputsIdle
    /\ BuildIdle
    /\ ServiceIdle
    /\ arg \in SplitTexts
    /\ result = <<>>

\* docs_service.py _shell_split, from the call to the return
Split ==
    /\ pc = "_shell_split"
    /\ result' = << _shell_split(arg) >>
    /\ pc' = "split"
    /\ UNCHANGED <<shape, arg, parseVars, inputVars, buildVars, serviceVars>>

SpecSplit == InitSplit /\ [][Split]_vars

\* the two-mode machine of the specification: the mode after the first i
\* characters of s, NoQuote or the quote character that opened quote mode
QuoteMode(s) ==
    LET mode[i \in 0..Len(s)] ==
            IF i = 0 THEN NoQuote
            ELSE IF mode[i - 1] = NoQuote
                 THEN IF s[i] \in QuoteChars THEN s[i] ELSE NoQuote
                 ELSE IF s[i] = mode[i - 1] THEN NoQuote ELSE mode[i - 1]
    IN  mode

\* s[i] opens or closes quote mode
Delimiting(s, i) ==
    IF QuoteMode(s)[i - 1] = NoQuote THEN s[i] \in QuoteChars ELSE s[i] = QuoteMode(s)[i - 1]

\* s[i] is whitespace outside quote mode
UnquotedSpace(s, i) == QuoteMode(s)[i - 1] = NoQuote /\ s[i] \in WS

\* the characters of s strictly between the positions a and b that are
\* neither delimiting quotes nor unquoted whitespace
KeptBetween(s, a, b) ==
    LET idx == SelectSeq([i \in 1..Len(s) |-> i],
                         LAMBDA i : a < i /\ i < b /\ ~Delimiting(s, i) /\ ~UnquotedSpace(s, i))
    IN  [k \in 1..Len(idx) |-> s[idx[k]]]

\* the runs of kept characters between unquoted whitespace, empty runs dropped
TokensOfMachine(s) ==
    LET breaks == {0, Len(s) + 1} \cup {i \in 1..Len(s) : UnquotedSpace(s, i)}
        nth(j) == CHOOSE x \in breaks : Cardinality({y \in breaks : y < x}) = j - 1
        runs == [j \in 1..(Cardinality(breaks) - 1) |-> KeptBetween(s, nth(j), nth(j + 1))]
    IN  SelectSeq(runs, LAMBDA r : r # <<>>)

\* the position of the quote that opened the quote mode s ends in
OpenedAt(s) ==
    CHOOSE o \in 1..Len(s) :
        /\ QuoteMode(s)[o - 1] = NoQuote
        /\ \A i \in o..Len(s) : QuoteMode(s)[i] # NoQuote

\* C18: for every string, the tokens _shell_split returns are the runs of the
\* two-mode machine: whitespace outside quote mode ends a token, a quote
\* outside quote mode opens a mode only the same character closes, inside it
\* whitespace and the other quote are copied, delimiting quotes appear in no
\* token, and after an unclosed quote everything up to the end is in the last
\* token; no token is empty, and the tokens concatenated are the string
\* without its delimiting quotes and unquoted whitespace.
C18_SplitMachine ==
    pc = "split" =>
        LET toks == result[1] IN
        /\ toks = TokensOfMachine(arg)
        /\ \A k \in 1..Len(toks) : toks[k] # <<>>
        /\ Flatten(toks) = KeptBetween(arg, 0, Len(arg) + 1)
        /\ QuoteMode(arg)[Len(arg)] # NoQuote /\ OpenedAt(arg) < Len(arg) =>
               /\ toks # <<>>
               /\ endswith(toks[Len(toks)], SubSeq(arg, OpenedAt(arg) + 1, Len(arg)))

\* two tokens, the second one after an unclosed quote and holding both a
\* whitespace character and the other quote character
C18_Witness ==
    /\ pc = "split"
    /\ Len(result[1]) = 2
    /\ QuoteMode(arg)[Len(arg)] = "'"
    /\ \E i, j \in 1..Len(result[1][2]) : result[1][2][i] \in WS /\ result[1][2][j] = "\""

-----------------------------------------------------------------------------
(* parse_curl on commands whose first word begins with a character of      *)
(* "curl "                                                                 *)

V_localhost == <<"l", "o", "c", "a", "l", "h", "o", "s", "t", "/", "p">>
V_url_host == <<"u", "r", "l", ".", "e", "x", "a", "m", "p", "l", "e", "/", "p">>
V_curl == <<"c", "u", "r", "l">>
V_localhost_q == <<"'", "l", "o", "c", "a", "l", "h", "o", "s", "t", "/", "p", "'">>
V_user == <<"-", "u">>
PrefixWords == {V_localhost, V_url_host, V_curl, V_localhost_q, V_user, W_url, W_X, W_post}

InitPrefix ==
    /\ pc = "parse_curl"
    /\ tokens = <<>>
    /\ parsed = NoRequest
    /\ InputsIdle
    /\ BuildIdle
    /\ ServiceIdle
    /\ CallIdle
    /\ \E n \in 0..MaxWords : \E ws \in [1..n -> PrefixWords] :
          shape = WordsShape(ws) /\ cmd = WordsCommand(ws)

SpecPrefix == InitPrefix /\ [][NextParse]_vars

\* C19: for a command "curl " + rest, the token list parse_curl scans is
\* _shell_split(rest), and its first token is the first word of rest,
\* character for character.
C19_TokensAfterPrefix ==
    pc \in {"tokenized", "parsed"} /\ shape.kind = "words" =>
        /\ tokens = _shell_split(JoinWords(shape.words))
        /\ shape.words # <<>> =>
               /\ tokens # <<>>
               /\ tokens[1] = strip_chars(shape.words[1], QuoteChars)

-----------------------------------------------------------------------------
(* The order of the normalized batch                                       *)

\* the index of the first occurrence of x in seq
FirstIndex(seq, x) ==
    CHOOSE i \in 1..Len(seq) : seq[i] = x /\ \A j \in 1..(i - 1) : seq[j] # x

\* the non-blank items of the explicit list as given, then the chunks of
\* the text blob
WrittenNonBlank == SelectSeq(shape.items, LAMBDA c : strip(c) # <<>>) \o shape.chunks

\* C20: the list _normalize_curls returns holds the non-blank items of the
\* explicit list and then the chunks of the text blob, each distinct string
\* once, ordered by first occurrence; the requests parsed from the chunks
\* starting with "curl " follow that order, one per distinct chunk.
C20_NormalizedOrder ==
    pc \in {"normalized", "partitioned", "inputs_done"} =>
        /\ Range(curls) = Range(WrittenNonBlank)
        /\ \A i, j \in 1..Len(curls) :
               i < j => FirstIndex(WrittenNonBlank, curls[i]) < FirstIndex(WrittenNonBlank, curls[j])
        /\ pc # "normalized" =>
               LET cc == SelectSeq(curls, LAMBDA c : startswith(c, CurlPrefix))
               IN  /\ Len(cc) = Cardinality(WrittenCurlChunks)
                   /\ cc # <<>> => requests = [k \in 1..Len(cc) |-> parse_curl(cc[k])]

\* a list item that is written again as a later chunk of the text, with
\* another curl chunk between them: two requests from three written commands
C20_Witness ==
    /\ pc = "inputs_done"
    /\ Len(shape.items) = 2 /\ Len(shape.chunks) = 2
    /\ shape.items[1] = shape.chunks[2]
    /\ startswith(shape.items[1], CurlPrefix)
    /\ startswith(shape.chunks[1], CurlPrefix)
    /\ shape.chunks[1] # shape.chunks[2]
    /\ Len(requests) = 2
    /\ requests[1] = parse_curl(shape.items[1])

-----------------------------------------------------------------------------
(* Security inference of build_openapi_from_requests                       *)

\* request r has a header whose name, lower-cased, is x-api-key or api-key
HasApiKeyHeader(r) == \E j \in 1..Len(r.headers) : lower(r.headers[j][1]) \in ApiKeyHeaders

\* the header Parameters of every operation of the document d
HeaderParameters(d) ==
    UNION {{op.parameters[k] : k \in {k \in 1..Len(op.parameters) : op.parameters[k].in = "header"}}
           : op \in AllOps(d)}

\* C21: the returned document has the apiKeyAuth scheme and an apiKeyAuth
\* entry in security iff some request of the batch, stored or overwritten,
\* has a header named x-api-key or api-key in any letter case; no header
\* Parameter has such a name; and a batch without API-key and bearer headers
\* yields neither securitySchemes nor security.
C21_ApiKeySecurity ==
    pc = "built" =>
        /\ ("apiKeyAuth" \in Range(doc.securitySchemes))
               <=> (\E i \in 1..Len(build.requests_payload) : HasApiKeyHeader(build.requests_payload[i]))
        /\ ("apiKeyAuth" \in Range(doc.security))
               <=> (\E i \in 1..Len(build.requests_payload) : HasApiKeyHeader(build.requests_payload[i]))
        /\ \A pr \in HeaderParameters(doc) : lower(pr.name) \notin ApiKeyHeaders
        /\ (\A i \in 1..Len(build.requests_payload) :
                ~HasApiKeyHeader(build.requests_payload[i]) /\ ~HasBearerHeader(build.requests_payload[i]))
               => doc.securitySchemes = <<>> /\ doc.security = <<>>

\* a request with an api-key header was overwritten by a colliding request
\* without one, and the document still has the scheme
C21_Witness ==
    /\ pc = "built"
    /\ Len(build.requests_payload) = 2
    /\ HasApiKeyHeader(build.requests_payload[1])
    /\ ~HasApiKeyHeader(build.requests_payload[2])
    /\ Len(doc.paths) = 1 /\ Len(doc.paths[1].ops) = 1
    /\ "apiKeyAuth" \in Range(doc.securitySchemes)

-----------------------------------------------------------------------------
(* Request body classification of build_openapi_from_requests              *)

\* the request the loop has just handled and the requestBody it was given
LastRequest == build.requests_payload[build.i - 1]
LastBody == build.last[1].op.requestBody
Handled == pc = "build_loop" /\ build.last # <<>>

\* C22: an operation has a requestBody iff the body of its request is a
\* non-empty string; a coerced dict gives schema object and a coerced list
\* schema array, with the coerced value as example; any other coerced value
\* (a tuple, a set, a number, a string) gives the strict JSON reading of the
\* body with schema object when the body is strict JSON, and the raw body
\* with schema string when it is not.
C22_RequestBody ==
    Handled =>
        /\ LastBody.present <=> (LastRequest.body.some /\ LastRequest.body.v # <<>>)
        /\ LastBody.present =>
              \E coerced \in {_coerce_json(LastRequest.body.v)} :
              \E strict \in {json_loads(LastRequest.body.v)} :
                 /\ coerced.t = "dict" => LastBody.schema = "object" /\ LastBody.example = coerced
                 /\ coerced.t = "list" => LastBody.schema = "array" /\ LastBody.example = coerced
                 /\ coerced.t \notin {"dict", "list"} /\ strict.ok
                        => LastBody.schema = "object" /\ LastBody.example = strict.val
                 /\ coerced.t \notin {"dict", "list"} /\ ~strict.ok
                        => /\ LastBody.schema = "string"
                           /\ LastBody.example = Val("str", LastRequest.body.v, <<>>)

\* the statement with "has a body" read as "body is not None" and "sequence"
\* as list or tuple
C22_RequestBodyAsClaimed ==
    Handled =>
        /\ LastBody.present <=> LastRequest.body.some
        /\ LastBody.present =>
              \E coerced \in {_coerce_json(LastRequest.body.v)} :
                 coerced.t \in {"list", "tuple"}
                     => LastBody.schema = "array" /\ LastBody.example = coerced

\* a body that is strict JSON without being a dict or a list got schema object
C22_Witness ==
    /\ Handled
    /\ LastRequest.body.some
    /\ _coerce_json(LastRequest.body.v).t = "int"
    /\ LastBody.present /\ LastBody.schema = "object" /\ LastBody.example.t = "int"

-----------------------------------------------------------------------------
(* The Markdown block loops of generate_pdf and generate_docx, one action  *)
(* per iteration.  i is the 1-based index of the line the next iteration   *)
(* starts at; a block is the range of lines one iteration consumed.  The   *)
(* document library of generate_docx is outside the repository: a          *)
(* paragraph added with empty text has no runs, and a table row has as     *)
(* many cells as the table has columns.                                    *)

is_fence(l) == startswith(strip(l), Fence)
is_table_line(l) == startswith(strip(l), <<"|">>)
is_bullet(l) == startswith(strip(l), <<"-", " ">>)
is_heading(l) ==
    startswith(l, <<"#", " ">>) \/ startswith(l, <<"#", "#", " ">>)
    \/ startswith(l, <<"#", "#", "#", " ">>)
not_fence(l) == ~is_fence(l)
not_table_line(l) == ~is_table_line(l)
not_bullet_line(l) == ~is_bullet(l)

\* line[2:].strip(), line[3:].strip() or line[4:].strip() of a heading line
heading_text(l) ==
    IF startswith(l, <<"#", " ">>) THEN strip(SubSeq(l, 3, Len(l)))
    ELSE IF startswith(l, <<"#", "#", " ">>) THEN strip(SubSeq(l, 4, Len(l)))
    ELSE strip(SubSeq(l, 5, Len(l)))

Block(kind, from, to) == [kind |-> kind, from |-> from, to |-> to]

\* what one iteration does: the cursor after it, the block it consumed, and
\* whether a library call of the iteration raised
Iteration(next, block, raised) == [next |-> next, block |-> block, raised |-> raised]

Smaller(a, b) == IF a < b THEN a ELSE b

\* the inner loop without the "i += 1" of line 914 before it
closing_fence_from_opening(lines, i) == first_from(lines, i, is_fence)

\* lines 914-917 and 1078-1082: the index of the closing fence of the code
\* block opened at line i, Len(lines) + 1 when there is none
closing_fence(lines, i) == first_from(lines, i + 1, is_fence)

\* docs_service.py lines 905-1007 for the line at i
pdf_iteration(lines, i) ==
    LET line == lines[i]
        code(j) == Iteration(j + 1, Block("code", i, Smaller(j, Len(lines))), FALSE)
        cell_raises(rows) ==
            \E r \in 1..Len(rows) : \E k \in 1..Len(rows[r]) : paragraph_raises(rows[r][k])
        table(j) ==
            Iteration(j, Block("table", i, j - 1), cell_raises(table_rows(SubSeq(lines, i, j - 1))))
        bullets(j) ==
            LET items == [k \in 1..(j - i) |->
                             SubSeq(strip(lines[i + k - 1]), 3, Len(strip(lines[i + k - 1])))]
            IN  Iteration(j, Block("bullets", i, j - 1),
                          paragraph_raises(<<"U+2022", " ">> \o JoinWith(items, BulletJoin)))
        single(kind, raised) ==
            Iteration(IF raised THEN i ELSE i + 1, Block(kind, i, i), raised)
    IN  IF strip(line) = <<>> THEN Iteration(i + 1, Block("blank", i, i), FALSE)
        ELSE IF is_fence(line) THEN code(closing_fence(lines, i))
        ELSE IF is_table_line(line) THEN table(first_from(lines, i + 1, not_table_line))
        ELSE IF is_heading(line) THEN single("heading", paragraph_raises(heading_text(line)))
        ELSE IF is_bullet(line) THEN bullets(first_from(lines, i + 1, not_bullet_line))
        ELSE single("paragraph", paragraph_raises(strip(line)))

\* docs_service.py lines 1061-1128 for the line at i
docx_iteration(lines, i) ==
    LET line == lines[i]
        \* line 1085: p.runs[0] of a paragraph without runs
        code(j) ==
            Iteration(j + 1, Block("code", i, Smaller(j, Len(lines))),
                      JoinWith(SubSeq(lines, i + 1, j - 1), <<"\n">>) = <<>>)
        \* line 1110: tr[j] beyond the cells of the row
        cell_raises(rows) == \E r \in 1..Len(rows) : Len(rows[r]) > Len(rows[1])
        table(j) ==
            Iteration(j, Block("table", i, j - 1), cell_raises(table_rows(SubSeq(lines, i, j - 1))))
    IN  IF strip(line) = <<>> THEN Iteration(i + 1, Block("blank", i, i), FALSE)
        ELSE IF is_heading(line) THEN Iteration(i + 1, Block("heading", i, i), FALSE)
        ELSE IF is_fence(line) THEN code(closing_fence(lines, i))
        ELSE IF is_table_line(line) THEN table(first_from(lines, i + 1, not_table_line))
        ELSE Iteration(i + 1, Block("paragraph", i, i), FALSE)

\* the lines of the Markdown texts given to the two loops: blank, heading,
\* text the layout library cannot parse, bullet, fence and table row
BlockLines == {<<>>, L_h1, L_text_bad, L_bullet, L_fence, L_row}

Exporters == {"pdf", "docx"}

NoLoop == [i |-> 1, blocks |-> <<>>, raised |-> FALSE]

\* no export has been called yet
InitBlocks ==
    /\ pc = "export"
    /\ shape = <<>>
    /\ ParseIdle
    /\ InputsIdle
    /\ BuildIdle
    /\ ServiceIdle
    /\ CallIdle

\* generate_pdf or generate_docx is called with a Markdown text: lines
\* 900-903 and 1057-1059
ExportCall(e, lines) ==
    /\ pc = "export"
    /\ shape' = [kind |-> "blocks", exporter |-> e]
    /\ arg' = lines
    /\ result' = << NoLoop >>
    /\ pc' = "block_loop"
    /\ UNCHANGED <<parseVars, inputVars, buildVars, serviceVars>>

\* one iteration of the loop of the exporter of this call
LoopIteration(e, iteration(_, _)) ==
    /\ pc = "block_loop"
    /\ shape.exporter = e
    /\ result[1].i <= Len(arg)
    /\ \E it \in {iteration(arg, result[1].i)} :
          /\ result' = << [i |-> it.next,
                           blocks |-> IF it.raised THEN result[1].blocks
                                      ELSE Append(result[1].blocks, it.block),
                           raised |-> it.raised] >>
          /\ pc' = IF it.raised THEN "loop_raised" ELSE "block_loop"
    /\ UNCHANGED <<shape, arg, parseVars, inputVars, buildVars, serviceVars>>

PdfIteration == LoopIteration("pdf", pdf_iteration)

DocxIteration == LoopIteration("docx", docx_iteration)

\* the test "while i < len(lines)" fails: lines 1009 and 1129 are reached
LoopExit ==
    /\ pc = "block_loop"
    /\ result[1].i > Len(arg)
    /\ pc' = "loop_done"
    /\ UNCHANGED <<shape, arg, result, parseVars, inputVars, buildVars, serviceVars>>

NextBlocks ==
    \/ \E e \in Exporters : \E n \in 1..MaxLines : \E lines \in [1..n -> BlockLines] :
           ExportCall(e, lines)
    \/ PdfIteration
    \/ DocxIteration
    \/ LoopExit

SpecBlocks == InitBlocks /\ [][NextBlocks]_vars

BlockKinds == {"blank", "heading", "code", "table", "bullets", "paragraph"}

\* the running loop moves on: some step from a state inside the loop that
\* leaves the Markdown text and the exporter alone.  Every step of
\* PdfIteration, DocxIteration and LoopExit is such a step, and no other
\* step of NextBlocks is.
LoopAdvance ==
    /\ pc = "block_loop"
    /\ pc' \in {"block_loop", "loop_raised", "loop_done"}
    /\ result' \in
          {<< r >> : r \in [i : result[1].i..(Len(arg) + 2),
                            blocks : {result[1].blocks}
                                     \cup {Append(result[1].blocks, Block(k, result[1].i, t)) :
                                               k \in BlockKinds, t \in result[1].i..Len(arg)},
                            raised : BOOLEAN]}
    /\ UNCHANGED <<shape, arg, parseVars, inputVars, buildVars, serviceVars>>

AnyExportCall ==
    \E e \in Exporters : \E n \in 1..MaxLines : \E lines \in [1..n -> BlockLines] :
        ExportCall(e, lines)

\* the exporter is sequential code: a call that can start starts, and the
\* loop takes its next step whenever it has one
SpecBlocksFair == SpecBlocks /\ WF_vars(AnyExportCall) /\ WF_vars(LoopAdvance)

\* the blocks bs cover the lines 1..n, each line in exactly one block
TiledTo(bs, n) ==
    /\ (bs = <<>>) <=> (n = 0)
    /\ bs # <<>> => bs[1].from = 1 /\ bs[Len(bs)].to = n
    /\ \A k \in 1..Len(bs) : bs[k].from <= bs[k].to
    /\ \A k \in 1..(Len(bs) - 1) : bs[k + 1].from = bs[k].to + 1

\* a code block runs from its opening fence to the first fence after it,
\* or to the last line when no fence follows
CodeExtent(b) ==
    /\ is_fence(arg[b.from])
    /\ \A k \in (b.from + 1)..(b.to - 1) : ~is_fence(arg[k])
    /\ \/ b.to > b.from /\ is_fence(arg[b.to])
       \/ b.to = Len(arg) /\ (b.to > b.from => ~is_fence(arg[b.to]))

LoopEnded == pc \in {"loop_done", "loop_raised"}

-----------------------------------------------------------------------------
(* Overlapping ingest and generate calls on one project                    *)
(*                                                                         *)
(* The handlers hold no lock and the files are written in place            *)
(* (storage_service.py: open(path, "w") and a dump into the open file), so *)
(* calls served by different workers interleave at the file operations:    *)
(* open(path, "w") empties the file, the dump reaches the file when the    *)
(* buffer is flushed at the end of the with block, written at the writer's *)
(* own offset, and a reader gets the bytes the file holds at that moment.  *)
(* A text is known by the batch it was made from; the text for the batch   *)
(* of two requests is longer than the text for the batch of one, measured  *)
(* here in requests.                                                       *)

\* most calls in flight on the project
MaxProcs == 3

Batches == {"one", "two"}
TextSize(b) == IF b = "one" THEN 1 ELSE 2

\* the bytes lo..hi of the text made from batch b
Seg(b, lo, hi) == [of |-> b, lo |-> lo, hi |-> hi]

NoFile == [exists |-> FALSE, parts |-> <<>>]
WholeFile(b) == [exists |-> TRUE, parts |-> << Seg(b, 1, TextSize(b)) >>]

FileSize(f) == IF f.parts = <<>> THEN 0 ELSE f.parts[Len(f.parts)].hi

\* open(path, "w"): the file exists and is empty
opened_for_writing(f) == [exists |-> TRUE, parts |-> <<>>]

\* the flush of the text made from b at offset 0 of the file f: the bytes
\* of f beyond the end of the text stay
flushed(f, b) ==
    LET n == TextSize(b)
        beyond == SelectSeq(f.parts, LAMBDA s : s.hi > n)
    IN  [exists |-> TRUE,
         parts  |-> << Seg(b, 1, n) >>
                    \o [k \in 1..Len(beyond) |->
                           IF beyond[k].lo > n THEN beyond[k]
                           ELSE Seg(beyond[k].of, n + 1, beyond[k].hi)]]

\* a reader that takes the first JSON text of the bytes and ignores the rest
BeginsWhole(f) ==
    f.parts # <<>> /\ f.parts[1].lo = 1 /\ f.parts[1].hi = TextSize(f.parts[1].of)

\* storage_service.py line 157: json.load accepts the bytes of f when they
\* are exactly one JSON text
IsWhole(f) == \E b \in Batches : f = WholeFile(b)

Proc(op, batch) == [op |-> op, batch |-> batch, at |-> "called", read |-> NoFile, status |-> 0]

RaceCalls == {Proc("ingest", b) : b \in Batches} \cup {Proc("generate", "none")}

\* the project exists; an earlier ingest may have persisted the batch of
\* one request; the calls have arrived
InitRace ==
    /\ pc = "race"
    /\ shape = <<>>
    /\ ParseIdle
    /\ InputsIdle
    /\ BuildIdle
    /\ ServiceIdle
    /\ \E n \in 1..MaxProcs : result \in [1..n -> RaceCalls]
    /\ \E f \in {NoFile, WholeFile("one")} :
          arg = [inputs |-> f, openapi |-> NoFile, markdown |-> NoFile]

RaceStep(p, at, files) ==
    /\ result' = [result EXCEPT ![p] = at]
    /\ arg' = files
    /\ UNCHANGED <<pc, shape, parseVars, inputVars, buildVars, serviceVars>>

\* routers/docs.py lines 17-21 and storage_service.py lines 146-148
IngestOpen(p) ==
    /\ pc = "race"
    /\ result[p].op = "ingest" /\ result[p].at = "called"
    /\ RaceStep(p, [result[p] EXCEPT !.at = "inputs_open"],
                [arg EXCEPT !.inputs = opened_for_writing(@)])

\* storage_service.py line 149 and routers/docs.py line 23
IngestWrite(p) ==
    /\ pc = "race"
    /\ result[p].op = "ingest" /\ result[p].at = "inputs_open"
    /\ RaceStep(p, [result[p] EXCEPT !.at = "returned", !.status = 200],
                [arg EXCEPT !.inputs = flushed(@, result[p].batch)])

\* routers/docs.py lines 28-42 and storage_service.py lines 152-157: no
\* file is BadInput, bytes that are not one JSON text make json.load raise
GenerateLoad(p) ==
    /\ pc = "race"
    /\ result[p].op = "generate" /\ result[p].at = "called"
    /\ RaceStep(p,
                IF ~arg.inputs.exists THEN [result[p] EXCEPT !.at = "returned", !.status = 400]
                ELSE IF ~IsWhole(arg.inputs)
                     THEN [result[p] EXCEPT !.at = "returned", !.status = 500]
                     ELSE [result[p] EXCEPT !.at = "rendered", !.read = arg.inputs],
                arg)

\* storage_service.py lines 161-163
OpenapiOpen(p) ==
    /\ pc = "race"
    /\ result[p].op = "generate" /\ result[p].at = "rendered"
    /\ RaceStep(p, [result[p] EXCEPT !.at = "openapi_open"],
                [arg EXCEPT !.openapi = opened_for_writing(@)])

\* storage_service.py line 164
OpenapiWrite(p) ==
    /\ pc = "race"
    /\ result[p].op = "generate" /\ result[p].at = "openapi_open"
    /\ RaceStep(p, [result[p] EXCEPT !.at = "openapi_saved"],
                [arg EXCEPT !.openapi = flushed(@, result[p].read.parts[1].of)])

\* storage_service.py lines 176-178
MarkdownOpen(p) ==
    /\ pc = "race"
    /\ result[p].op = "generate" /\ result[p].at = "openapi_saved"
    /\ RaceStep(p, [result[p] EXCEPT !.at = "markdown_open"],
                [arg EXCEPT !.markdown = opened_for_writing(@)])

\* storage_service.py line 179 and routers/docs.py line 47
MarkdownWrite(p) ==
    /\ pc = "race"
    /\ result[p].op = "generate" /\ result[p].at = "markdown_open"
    /\ RaceStep(p, [result[p] EXCEPT !.at = "returned", !.status = 200],
                [arg EXCEPT !.markdown = flushed(@, result[p].read.parts[1].of)])

NextRace ==
    \/ \E p \in DOMAIN result : IngestOpen(p)
    \/ \E p \in DOMAIN result : IngestWrite(p)
    \/ \E p \in DOMAIN result : GenerateLoad(p)
    \/ \E p \in DOMAIN result : OpenapiOpen(p)
    \/ \E p \in DOMAIN result : OpenapiWrite(p)
    \/ \E p \in DOMAIN result : MarkdownOpen(p)
    \/ \E p \in DOMAIN result : MarkdownWrite(p)

SpecRace == InitRace /\ [][NextRace]_vars

AllReturned == pc = "race" /\ \A p \in DOMAIN result : result[p].at = "returned"

IngestedBatches == {result[p].batch : p \in {q \in DOMAIN result : result[q].op = "ingest"}}

-----------------------------------------------------------------------------
(* The keys of paths                                                       *)

\* C25: every key of paths in the returned document starts with "/".
C25_PathsStartWithSlash ==
    pc = "built" => \A k \in 1..Len(doc.paths) : startswith(doc.paths[k].path, Slash)

-----------------------------------------------------------------------------
(* Credential values and the document                                      *)

CredentialHeaders == {H_authorization} \cup ApiKeyHeaders

IsCredential(h) == lower(h[1]) \in CredentialHeaders

\* the request r with the value v for every credential header
WithCredential(r, v) ==
    [r EXCEPT !.headers = [j \in 1..Len(r.headers) |->
                              IF IsCredential(r.headers[j]) THEN <<r.headers[j][1], v>>
                              ELSE r.headers[j]]]

OtherCredentials == {<<"B", "e", "a", "r", "e", "r", " ", "s">>, <<"q">>}

\* the values of the credential headers of the batch
BatchCredentials ==
    UNION {{build.requests_payload[i].headers[j][2] :
                j \in {j \in 1..Len(build.requests_payload[i].headers) :
                          IsCredential(build.requests_payload[i].headers[j])}}
           : i \in 1..Len(build.requests_payload)}

\* C26: the returned document is the one of the batch with any other value
\* for its Authorization, X-API-Key and API-Key headers (names in any letter
\* case), and no header Parameter carries such a value as its example:
\* the Parameter of a credential header has the example "***".
C26_CredentialsMasked ==
    pc = "built" =>
        /\ \A v \in OtherCredentials :
              doc = build_openapi_from_requests(
                        build.project_name, build.base_url_hint,
                        [i \in 1..Len(build.requests_payload) |->
                            WithCredential(build.requests_payload[i], v)],
                        build.ai_enabled)
        /\ \A p \in HeaderParameters(doc) :
              /\ lower(p.name) \in CredentialHeaders => p.example = Stars
              /\ p.example \notin BatchCredentials

C26_Witness ==
    /\ pc = "built"
    /\ BatchCredentials # {}
    /\ Stars \notin BatchCredentials
    /\ \E p \in HeaderParameters(doc) : lower(p.name) = H_authorization /\ p.example = Stars

-----------------------------------------------------------------------------
(* The persisted document and its Markdown                                 *)

\* routers/docs.py line 37: the title of a generate call
title_of(p, opts) ==
    IF opts.project_name.some /\ opts.project_name.v # <<>> THEN opts.project_name.v
    ELSE IF store[p].project_name # <<>> THEN store[p].project_name
    ELSE p

\* the generate call that has just returned ok for project p
GenerateReturnedOk(p) ==
    /\ calls' = calls + 1
    /\ response'.call = "generate"
    /\ response'.project_id = p
    /\ response'.status = 200

\* C27: for every project the Markdown is persisted iff the OpenAPI document
\* is, the Markdown is the default-style rendering of the persisted document,
\* and the document is what a generate that returned ok stored: the
\* synthesis of the batch persisted at that call, as json.dump writes it; an
\* ingest or a failed generate changes neither the document nor the
\* Markdown.
C27_ArtifactsConsistent ==
    /\ [](\A p \in ProjectIds :
             /\ (store[p].markdown # <<>>) <=> (store[p].openapi # <<>>)
             /\ store[p].openapi # <<>> =>
                    render_markdown_from_openapi(store[p].openapi[1])
                        = [ok |-> TRUE, text |-> store[p].markdown[1]])
    /\ [][\A p \in ProjectIds :
             IF GenerateReturnedOk(p)
             THEN \E opts \in GenerateOptions :
                     store'[p].openapi =
                         << saved_document(build_openapi_from_requests(
                                title_of(p, opts), opts.base_url, store[p].inputs[1],
                                opts.ai_enabled)) >>
             ELSE /\ store'[p].openapi = store[p].openapi
                  /\ store'[p].markdown = store[p].markdown]_vars

-----------------------------------------------------------------------------
(* Calls that return an error                                              *)

\* an ingest or generate call has just returned NotFound or BadInput
ReturnedError ==
    /\ calls' = calls + 1
    /\ response'.call \in {"ingest", "generate"}
    /\ response'.status \in {404, 400}

\* C28: an ingest or generate call that returns NotFound (404) or BadInput
\* (400) leaves the batch, the OpenAPI document and the Markdown of every
\* project as they were, and creates none.
C28_ErrorsChangeNothing ==
    [][ReturnedError => store' = store]_vars

\* an ingest for an unknown project id has returned 404 while another
\* project holds a batch, a document and its Markdown
C28_Witness ==
    /\ response.call = "ingest"
    /\ response.status = 404
    /\ ~store[response.project_id].exists
    /\ \E q \in ProjectIds :
          store[q].inputs # <<>> /\ store[q].openapi # <<>> /\ store[q].markdown # <<>>

-----------------------------------------------------------------------------
(* The temporary files of generate_pdf and generate_docx                   *)

\* whether an iteration of the loop of generate_docx raises, from line i on
RECURSIVE docx_layout_raises(_, _)
docx_layout_raises(lines, i) ==
    IF i > Len(lines) THEN FALSE
    ELSE LET it == docx_iteration(lines, i)
         IN  it.raised \/ docx_layout_raises(lines, it.next)

\* the files the call has created in the temporary directory and not
\* removed, and the path it returned
NoTemp == [files |-> {}, returned |-> "none"]

InitTemp ==
    /\ pc = "tempdir"
    /\ shape = <<>>
    /\ ParseIdle
    /\ InputsIdle
    /\ BuildIdle
    /\ ServiceIdle
    /\ CallIdle

\* generate_pdf or generate_docx is called with a Markdown text
TempCall(e, lines) ==
    /\ pc = "tempdir"
    /\ shape' = [kind |-> "temp", exporter |-> e]
    /\ arg' = lines
    /\ result' = << NoTemp >>
    /\ pc' = IF e = "pdf" THEN "pdf_mkstemp" ELSE "docx_import"
    /\ UNCHANGED <<parseVars, inputVars, buildVars, serviceVars>>

\* docs_service.py lines 887-888: mkstemp before anything is laid out
PdfMkstemp ==
    /\ pc = "pdf_mkstemp"
    /\ result' = << [result[1] EXCEPT !.files = @ \cup {"first.pdf"}] >>
    /\ pc' = "pdf_layout"
    /\ UNCHANGED <<shape, arg, parseVars, inputVars, buildVars, serviceVars>>

\* docs_service.py lines 890-1007, outside the try of line 1009
PdfLayoutTemp ==
    /\ pc = "pdf_layout"
    /\ pc' = IF pdf_elements(arg, 1, <<>>).raised THEN "temp_raised" ELSE "pdf_doc_build"
    /\ UNCHANGED <<shape, arg, result, parseVars, inputVars, buildVars, serviceVars>>

\* docs_service.py lines 1009-1012: doc.build(elements) returns or raises
PdfBuildTemp ==
    /\ pc = "pdf_doc_build"
    /\ \/ /\ result' = << [result[1] EXCEPT !.returned = "first.pdf"] >>
          /\ pc' = "temp_returned"
       \/ /\ pc' = "pdf_canvas"
          /\ UNCHANGED result
    /\ UNCHANGED <<shape, arg, parseVars, inputVars, buildVars, serviceVars>>

\* docs_service.py lines 1013-1034: a second mkstemp, then the canvas
\* writer returns or raises
PdfFallbackTemp ==
    /\ pc = "pdf_canvas"
    /\ \/ /\ result' = << [result[1] EXCEPT !.files = @ \cup {"second.pdf"},
                                            !.returned = "second.pdf"] >>
          /\ pc' = "temp_returned"
       \/ /\ result' = << [result[1] EXCEPT !.files = @ \cup {"second.pdf"}] >>
          /\ pc' = "temp_raised"
    /\ UNCHANGED <<shape, arg, parseVars, inputVars, buildVars, serviceVars>>

\* docs_service.py lines 1042-1047: python-docx is installed or not
DocxImport ==
    /\ pc = "docx_import"
    /\ pc' \in {"docx_layout", "temp_raised"}
    /\ UNCHANGED <<shape, arg, result, parseVars, inputVars, buildVars, serviceVars>>

\* docs_service.py lines 1049-1128
DocxLayoutTemp ==
    /\ pc = "docx_layout"
    /\ pc' = IF docx_layout_raises(arg, 1) THEN "temp_raised" ELSE "docx_save"
    /\ UNCHANGED <<shape, arg, result, parseVars, inputVars, buildVars, serviceVars>>

\* docs_service.py lines 1129-1133: mkstemp, os.remove of the empty file,
\* doc.save writing the same path
DocxSave ==
    /\ pc = "docx_save"
    /\ LET created == result[1].files \cup {"first.docx"}
           removed == created \ {"first.docx"}
           written == removed \cup {"first.docx"}
       IN  result' = << [files |-> written, returned |-> "first.docx"] >>
    /\ pc' = "temp_returned"
    /\ UNCHANGED <<shape, arg, parseVars, inputVars, buildVars, serviceVars>>

NextTemp ==
    \/ \E e \in Exporters : \E n \in 1..MaxLines : \E lines \in [1..n -> BlockLines] :
           TempCall(e, lines)
    \/ PdfMkstemp
    \/ PdfLayoutTemp
    \/ PdfBuildTemp
    \/ PdfFallbackTemp
    \/ DocxImport
    \/ DocxLayoutTemp
    \/ DocxSave

SpecTemp == InitTemp /\ [][NextTemp]_vars

\* C29: a call of generate_pdf or generate_docx that returns has created
\* exactly one temporary file that remains, the one whose path it returns,
\* also on the PDF fallback path; a call that raises leaves no temporary
\* file behind.
C29_OneTemporaryFile ==
    /\ pc = "temp_returned" => result[1].files = {result[1].returned}
    /\ pc = "temp_raised" => result[1].files = {}

-----------------------------------------------------------------------------
(* Rendering of synthesized documents                                      *)

\* C30: render_markdown_from_openapi, applied in any of the three styles to
\* the document build_openapi_from_requests returned for a batch, returns
\* Markdown text and does not raise, whatever the bodies of the requests.
C30_RenderingTotal ==
    pc \in {"rendered_once", "rendered_twice"} =>
        \A k \in 1..Len(result) : result[k].ok

====
